---- MODULE Spec2Model ----
(***************************************************************************)
(* Token lifecycle and authenticated-query engine of modul-auth-msal.      *)
(*                                                                         *)
(* The class MSAL exists in two versions in the sources: the current one   *)
(* (private accessToken, query() acquires its own token; "main") and the   *)
(* earlier one (data.accessToken, query() uses the held token, init-time   *)
(* batch; "batch").  The variable `variant` selects the version, every     *)
(* action is translated from the code of the version it runs in.           *)
(*                                                                         *)
(* The JavaScript event loop is modelled by frames: one record per         *)
(* invocation of an async method, with pc naming the await it is           *)
(* suspended at.  An action is one run-to-completion segment between two   *)
(* awaits.                                                                 *)
(*                                                                         *)
(* Five specifications are given.  Spec starts from a constructed session   *)
(* and runs the token and query engine.  SpecSession starts before the     *)
(* constructor and runs construction, login, logout and isAuthenticated    *)
(* against an identity client whose answers change between calls.          *)
(* SpecBatch constructs the batch version with the init-time batch         *)
(* requested and follows the batch and the token refresh.                  *)
(* SpecFacade drives a constructed session through the plugin's facade,    *)
(* login and logout interleaved with queries in flight.                    *)
(* SpecPure applies the synchronous helpers (requiresInteraction,          *)
(* createQuery, executeQuery up to the transport) to inputs of every kind. *)
(***************************************************************************)
EXTENDS Integers, Sequences, FiniteSets, TLC

VARIABLES
    variant,               \* which version of the class MSAL runs
    autoRefreshToken,      \* authConfig.autoRefreshToken
    accessToken,           \* this.accessToken (main) / this.data.accessToken (batch)
    tokenExpirationTimer,  \* this.tokenExpirationTimer; 0 models undefined
    timers,                \* the window's pending timeouts set by setAccessToken,
                           \* each with the scopes its callback holds and the
                           \* token it was set for
    nextTimerId,           \* the handle window.setTimeout returns next
    dataQuery,             \* this.data.query, the result cache
    calls,                 \* the frames of the invocations made so far
    phase,                 \* "new" before the constructor, "failed", "ready"
    isCallback,            \* what lib.isCallback(window.location.hash) answers
    account,               \* what lib.getAccount() answers
    queryParameters,       \* queryConfig.parameters (main) / .parameter (batch)
    callAfterInit,         \* queryConfig.callAfterInit (batch)
    dataIsAuthenticated,   \* this.data.isAuthenticated
    dataUser,              \* this.data.user
    lastOp,                \* the last synchronous operation and what it called
    store,                 \* this.lib.store, the identity client's durable cache
    batch,                 \* the run of initialQuery() (batch)
    baseUrl,               \* queryConfig.baseUrl: <<>> when undefined, else <<url>>
    endpoints,             \* queryConfig.endpoints (batch): <<>> when undefined
    applied                \* the last application of a helper, with its result

\* the state of the session object that the token and query engine leaves alone
facade == <<phase, isCallback, account, callAfterInit,
            dataIsAuthenticated, dataUser, lastOp, store, batch,
            baseUrl, endpoints, applied>>

vars == <<variant, autoRefreshToken, accessToken, tokenExpirationTimer,
          timers, nextTimerId, dataQuery, calls, queryParameters, facade>>

----------------------------------------------------------------------------
(* Bounds of the model *)

\* invocations (by a caller or by the expiration timer) in one behaviour
MaxCalls == 2
\* timeouts set in one behaviour
MaxTimers == 2
\* queries the host issues through the plugin
MaxPluginQueries == 1

----------------------------------------------------------------------------
(* Values *)

\* JavaScript's undefined, where a string is expected
Undefined == "$undefined"

\* access tokens the identity client may return
Tokens == {"t1", "t2"}

\* strings that are inspected by the code are sequences of characters
Http == <<"h", "t", "t", "p">>
UrlAbsolute == Http \o <<":", "/", "/", "x">>
UrlPath == <<"/", "m", "e">>
UrlEmpty == <<>>
BaseUrl == Http \o <<"s", ":", "/", "/", "g">>

\* queryConfig.parameters (main) / queryConfig.parameter (batch)
DefaultParameters == [scopes |-> <<"user.read">>]
OtherParameters == [scopes |-> <<"mail.read">>]

\* the argument list a caller gives for queryParameters: none, or one value
ParameterArgs == {<<>>, <<OtherParameters>>}

\* AuthResponse.scopes
ResponseScopes == {<<>>, <<"user.read">>}

\* AuthError.errorCode of a rejected silent acquisition; Undefined: an error
\* object without errorCode (new Error())
ErrorCodes == {"consent_required", "interaction_required", "login_required",
               "error_not_found", "", Undefined}

\* an endpoint is a bare string, [str |-> s], or a Query object, [url |-> s]
\* with or without id
NoEndpoint == [str |-> UrlEmpty]

CallerHeaders == [Authorization |-> "Bearer my-token", Accept |-> "json"]
CallerOptions == [method |-> "POST", headers |-> CallerHeaders]
\* what a caller passes to query(endpoint, options, parameters): the endpoint,
\* and the argument lists (none, or one value) of options and parameters
QueryInputs ==
    {<<[str |-> UrlPath], <<>>, <<>>>>,
     <<[str |-> UrlEmpty], <<>>, <<>>>>,
     <<[url |-> UrlAbsolute], <<>>, <<OtherParameters>>>>,
     <<[url |-> UrlPath, id |-> "profile"], <<CallerOptions>>, <<>>>>,
     <<[url |-> UrlAbsolute, id |-> "test"], <<CallerOptions>>, <<OtherParameters>>>>}
QueryDefaultOptions == [method |-> "GET", responseType |-> "json"]

\* response bodies the transport may deliver, and the responses carrying them
Bodies == {"b1", "b2"}
TransportResponses == {[data |-> d, status |-> 200] : d \in Bodies}
NoResponse == [data |-> Undefined, status |-> 0]

\* what lib.getAccount() can answer: null, an object without fields, an account
NullAccount == [type |-> "null", fields |-> <<>>]
EmptyAccount == [type |-> "object", fields |-> <<>>]
UserAccount == [type |-> "object", fields |-> [userName |-> "userName", name |-> "name"]]
Accounts == {NullAccount, EmptyAccount, UserAccount}
\* data.user before anything is stored in it
NoUser == [type |-> "undefined", fields |-> <<>>]

\* config.auth.clientId: a string, or null, or absent
Null == "$null"
ClientIds == {"abc", "", Null, Undefined}

\* queryConfig.endpoints as the field initialiser leaves it, in key order
DefaultEndpoints == <<[id |-> "profile", url |-> UrlPath]>>

\* an endpoint map of two entries, and the empty one
TwoEndpoints == <<[id |-> "profile", url |-> UrlPath],
                  [id |-> "photo", url |-> UrlAbsolute]>>
NoEndpoints == <<>>

\* config.query.endpoints: the key is not given (<<>>), or it is given as
\* undefined (<<<<>>>>), as the empty map or as a map of two entries
EndpointsOptions == {<<>>, << <<>> >>, << <<NoEndpoints>> >>, << <<TwoEndpoints>> >>}

\* the configurations handed to the constructor
Configs ==
    [clientId : ClientIds,
     requireAuthOnInitialize : BOOLEAN,
     autoRefreshToken : BOOLEAN,
     callAfterInit : BOOLEAN,
     parameters : {<<>>, <<OtherParameters>>},
     endpoints : {<<>>}]

\* the configurations of a host that opts in to the init-time batch
BatchConfigs ==
    [clientId : {"abc"},
     requireAuthOnInitialize : {FALSE},
     autoRefreshToken : BOOLEAN,
     callAfterInit : {TRUE},
     parameters : {<<>>},
     endpoints : EndpointsOptions]

\* initialQuery() has not run
NoBatch == [state |-> "none", key |-> "", results |-> <<>>]

\* no helper applied
NotApplied == [fn |-> "none"]

\* the error a rejected axios.request carries, and the placeholder of a frame
\* that threw nothing
TransportError == [message |-> "Network Error"]
NoError == [message |-> Undefined]

----------------------------------------------------------------------------
(* Pure functions *)

IsInteractionCode(errorCode) ==
    \/ errorCode = "consent_required"
    \/ errorCode = "interaction_required"
    \/ errorCode = "login_required"

\* requiresInteraction, were it to accept every non-empty code
requiresInteractionAnyCode(errorCode) ==
    errorCode # "" /\ errorCode # Undefined /\ errorCode # Null

\* requiresInteraction, were the comparison blind to the case of the letters
requiresInteractionCaseBlind(errorCode) ==
    IsInteractionCode(errorCode) \/ errorCode = "LOGIN_REQUIRED"

\* MSAL.requiresInteraction
requiresInteraction(errorCode) ==
    IF errorCode = "" \/ errorCode = Undefined \/ errorCode = Null
    THEN FALSE
    ELSE IsInteractionCode(errorCode)

\* `Bearer ${token}`
Bearer(token) == "Bearer " \o token

\* typeof endpoint === "string"
IsString(endpoint) == "str" \in DOMAIN endpoint

\* url.search("http") !== 0, were it !== -1: "http" anywhere in the url
NotHttpAnywhere(url) ==
    \A k \in 1..Len(url) :
        \/ k + Len(Http) - 1 > Len(url)
        \/ SubSeq(url, k, k + Len(Http) - 1) # Http

\* url.search("http") !== 0
NotHttp(url) == \/ Len(url) < Len(Http)
                \/ SubSeq(url, 1, Len(Http)) # Http

\* parameter defaults
ParametersOf(arg) == IF arg = <<>> THEN queryParameters ELSE arg[1]

\* endpoint.url after `endpoint = { url: endpoint }`
EndpointUrl(endpoint) == IF IsString(endpoint) THEN endpoint.str ELSE endpoint.url

\* typeof endpoint === "object" && endpoint.id !== undefined
HasId(endpoint) == ~IsString(endpoint) /\ "id" \in DOMAIN endpoint

\* MSAL.createQuery throws
createQueryThrows(endpoint) == EndpointUrl(endpoint) = UrlEmpty

\* MSAL.createQuery: { ...options, url: endpoint.url } and, in the batch
\* version, id: endpoint.id || `defaultID-${index}` with index 0
createQuery(endpoint, options) ==
    IF variant = "main"
    THEN [url |-> EndpointUrl(endpoint)] @@ options
    ELSE [url |-> EndpointUrl(endpoint),
          id |-> IF HasId(endpoint) THEN endpoint.id ELSE "defaultID-0"]
         @@ options

\* the headers of a request or of options; none when the field is absent
HeadersOf(r) == IF "headers" \in DOMAIN r THEN r.headers ELSE <<>>

\* executeQuery, were the caller's headers spread after Authorization
executeQueryCallerWins(endpoint, options, token) ==
    LET query == createQuery(endpoint, options)
        url == IF NotHttp(query.url) /\ baseUrl # <<>>
               THEN baseUrl[1] \o query.url
               ELSE query.url
        headers == HeadersOf(query) @@ [Authorization |-> Bearer(token)]
    IN  [url |-> url, headers |-> headers] @@ query

\* executeQuery, were the caller's headers not spread at all
executeQueryOnlyAuthorization(endpoint, options, token) ==
    LET query == createQuery(endpoint, options)
        url == IF NotHttp(query.url) /\ baseUrl # <<>>
               THEN baseUrl[1] \o query.url
               ELSE query.url
        headers == [Authorization |-> Bearer(token)]
    IN  [url |-> url, headers |-> headers] @@ query

\* MSAL.executeQuery up to axios.request: the request handed to the transport
\* when the held token is `token`
executeQuery(endpoint, options, token) ==
    LET query == createQuery(endpoint, options)
        url == IF NotHttp(query.url) /\ baseUrl # <<>>
               THEN baseUrl[1] \o query.url
               ELSE query.url
        headers == [Authorization |-> Bearer(token)] @@ HeadersOf(query)
    IN  [url |-> url, headers |-> headers] @@ query

----------------------------------------------------------------------------
(* Frames *)

\* the frame of acquireToken(arg), alone or inside query(): it has called
\* lib.acquireTokenSilent(queryParameters) and awaits it
Frame(op, by, arg, endpoint, options) ==
    [op |-> op, by |-> by, arg |-> arg, endpoint |-> endpoint,
     options |-> options,
     pc |-> "silent", acq |-> "pending", error |-> Undefined,
     silentArgs |-> <<ParametersOf(arg)>>, redirects |-> <<>>,
     token |-> Undefined, requests |-> <<>>,
     outcome |-> "pending", response |-> NoResponse,
     logged |-> <<>>, thrown |-> NoError, during |-> {}]

\* this.logger.error(err): the main version has a logger (a no-op one when the
\* configuration gives none), the batch version has none
LogError(c, err) ==
    IF variant = "main" THEN [c EXCEPT !.logged = Append(@, err)] ELSE c

\* i is the index of a frame
Live(i) == i \in 1..Len(calls)

\* the frames of the requests initialQuery() made
BatchFrames == {i \in 1..Len(calls) : calls[i].by = "batch"}

\* Promise.all, were the rejections left out of account
batchRejectsNever == FALSE

\* Promise.all rejects: one of the requests has been rejected
batchRejects == \E i \in BatchFrames : calls[i].outcome = "rejected"

\* Promise.all of initialQuery() has what it needs to settle: one request
\* rejected, or all resolved
BatchReady ==
    /\ batch.state = "pending"
    /\ \/ \E i \in BatchFrames : calls[i].outcome = "rejected"
       \/ \A i \in BatchFrames : calls[i].outcome = "resolved"

\* a continuation is queued as a microtask: no timer callback and no new
\* caller runs before it
MicrotaskPending ==
    \/ \E i \in 1..Len(calls) : calls[i].pc \in {"resume", "then"}
    \/ BatchReady

----------------------------------------------------------------------------
(* MSAL.setAccessToken *)

\* setAccessToken, were clearTimeout left out
setAccessTokenNoClear(token, scopes) ==
    /\ accessToken' = token
    /\ timers' = timers \cup {[id |-> nextTimerId, scopes |-> scopes, token |-> token]}
    /\ tokenExpirationTimer' = nextTimerId
    /\ nextTimerId' = nextTimerId + 1

\* stores the token, clears the timeout whose handle is held, sets a new one
setAccessToken(token, scopes) ==
    /\ accessToken' = token
    /\ timers' = (IF tokenExpirationTimer # 0
                  THEN {t \in timers : t.id # tokenExpirationTimer}
                  ELSE timers)
                 \cup {[id |-> nextTimerId, scopes |-> scopes, token |-> token]}
    /\ tokenExpirationTimer' = nextTimerId
    /\ nextTimerId' = nextTimerId + 1

----------------------------------------------------------------------------
(* MSAL.acquireToken *)

\* the caller's continuation once acquireToken has returned `token`
Returned(c, token) ==
    IF c.op = "query"
    THEN [c EXCEPT !.pc = "resume", !.token = token]
    ELSE IF c.by = "init"
    THEN [c EXCEPT !.pc = "then", !.token = token, !.outcome = "resolved"]
    ELSE [c EXCEPT !.pc = "done", !.token = token, !.outcome = "resolved"]

\* the version decides whether the token is stored and the timer rescheduled
StoresToken(token) == variant = "main" \/ accessToken # token

\* the try branch, were it to return the empty string
acquireTokenSuccessReturnsEmpty(i, token, scopes) ==
    /\ IF StoresToken(token)
       THEN nextTimerId <= MaxTimers /\ setAccessToken(token, scopes)
       ELSE UNCHANGED <<accessToken, timers, tokenExpirationTimer, nextTimerId>>
    /\ calls' = [calls EXCEPT ![i] = Returned([@ EXCEPT !.acq = "ok"], "")]

\* try branch: acquireTokenSilent resolved with {accessToken, expiresOn, scopes}
acquireTokenSuccess(i, token, scopes) ==
    /\ IF StoresToken(token)
       THEN nextTimerId <= MaxTimers /\ setAccessToken(token, scopes)
       ELSE UNCHANGED <<accessToken, timers, tokenExpirationTimer, nextTimerId>>
    /\ calls' = [calls EXCEPT ![i] =
                    Returned([@ EXCEPT !.acq = "ok"],
                             IF variant = "main" THEN accessToken' ELSE token)]

\* the catch branch, were it to re-throw the errors that need no interaction
acquireTokenFailureRethrows(i, errorCode) ==
    /\ calls' = [calls EXCEPT ![i] =
          IF requiresInteraction(errorCode)
          THEN Returned(LogError([@ EXCEPT !.acq = "failed", !.error = errorCode,
                                  !.redirects = Append(@, calls[i].silentArgs[1])],
                                 [errorCode |-> errorCode]),
                        "")
          ELSE LogError([@ EXCEPT !.acq = "failed", !.error = errorCode,
                                  !.pc = "done", !.outcome = "rejected"],
                        [errorCode |-> errorCode])]
    /\ UNCHANGED <<accessToken, timers, tokenExpirationTimer, nextTimerId>>

\* the catch branch, were it to redirect with the default parameters
acquireTokenFailureDefaultRedirect(i, errorCode) ==
    /\ calls' = [calls EXCEPT ![i] =
          Returned(LogError([@ EXCEPT !.acq = "failed", !.error = errorCode,
                                      !.redirects =
                                          IF requiresInteraction(errorCode)
                                          THEN Append(@, DefaultParameters)
                                          ELSE @],
                            [errorCode |-> errorCode]),
                   "")]
    /\ UNCHANGED <<accessToken, timers, tokenExpirationTimer, nextTimerId>>

\* the catch branch, were it to drop the held token and its timeout
acquireTokenFailureClearsToken(i, errorCode) ==
    /\ calls' = [calls EXCEPT ![i] =
          Returned(LogError([@ EXCEPT !.acq = "failed", !.error = errorCode,
                                      !.redirects =
                                          IF requiresInteraction(errorCode)
                                          THEN Append(@, calls[i].silentArgs[1])
                                          ELSE @],
                            [errorCode |-> errorCode]),
                   "")]
    /\ accessToken' = ""
    /\ timers' = {t \in timers : t.id # tokenExpirationTimer}
    /\ UNCHANGED <<tokenExpirationTimer, nextTimerId>>

\* catch branch: acquireTokenSilent rejected with an error of this errorCode
acquireTokenFailure(i, errorCode) ==
    /\ calls' = [calls EXCEPT ![i] =
          Returned(LogError([@ EXCEPT !.acq = "failed", !.error = errorCode,
                                      !.redirects =
                                          IF requiresInteraction(errorCode)
                                          THEN Append(@, calls[i].silentArgs[1])
                                          ELSE @],
                            [errorCode |-> errorCode]),
                   "")]
    /\ UNCHANGED <<accessToken, timers, tokenExpirationTimer, nextTimerId>>

----------------------------------------------------------------------------
(* Actions *)

\* a caller invokes acquireToken(arg)
CallAcquireToken(arg) ==
    /\ UNCHANGED <<queryParameters, facade>>
    /\ Len(calls) < MaxCalls
    /\ ~MicrotaskPending
    /\ calls' = Append(calls, Frame("acquireToken", "caller", arg, NoEndpoint, <<>>))
    /\ UNCHANGED <<variant, autoRefreshToken, accessToken, tokenExpirationTimer,
                   timers, nextTimerId, dataQuery>>

\* lib.acquireTokenSilent of frame i resolves
SilentResolve(i, token, scopes) ==
    /\ UNCHANGED <<queryParameters, facade>>
    /\ Live(i)
    /\ calls[i].pc = "silent"
    /\ acquireTokenSuccess(i, token, scopes)
    /\ UNCHANGED <<variant, autoRefreshToken, dataQuery>>

\* lib.acquireTokenSilent of frame i rejects
SilentReject(i, errorCode) ==
    /\ UNCHANGED <<queryParameters, facade>>
    /\ Live(i)
    /\ calls[i].pc = "silent"
    /\ acquireTokenFailure(i, errorCode)
    /\ UNCHANGED <<variant, autoRefreshToken, dataQuery>>

\* the request of a query frame is built and handed to axios.request, or
\* createQuery throws and the query rejects
Send(c, token) ==
    IF createQueryThrows(c.endpoint)
    THEN [c EXCEPT !.pc = "done", !.outcome = "rejected",
                   !.thrown = [message |-> "URL endpoint must not be empty"]]
    ELSE [c EXCEPT !.pc = "transport",
                   !.requests = Append(@, executeQuery(c.endpoint, c.options, token))]

\* the options executeQuery works on: main defaults them in query(), the
\* batch version in createQuery (options = {})
OptionsOf(optarg) ==
    IF optarg # <<>> THEN optarg[1]
    ELSE IF variant = "main" THEN QueryDefaultOptions ELSE <<>>

\* query(), were acquireToken not awaited before executeQuery
queryStartNoAwait(endpoint, optarg, arg) ==
    calls' = Append(calls,
                Send(Frame("query", "caller", arg, endpoint, OptionsOf(optarg)),
                     accessToken))

\* MSAL.query up to its first await
queryStart(endpoint, optarg, arg) ==
    IF variant = "main"
    THEN calls' = Append(calls,
                    Frame("query", "caller", arg, endpoint, OptionsOf(optarg)))
    ELSE calls' = Append(calls,
                    Send([Frame("query", "caller", <<>>, endpoint, OptionsOf(optarg))
                            EXCEPT !.acq = "none", !.silentArgs = <<>>],
                         accessToken))

\* a caller invokes query(endpoint, options, parameters); the batch version
\* takes no parameters
CallQuery(endpoint, optarg, arg) ==
    /\ UNCHANGED <<queryParameters, facade>>
    /\ Len(calls) < MaxCalls
    /\ ~MicrotaskPending
    /\ variant = "batch" => arg = <<>>
    /\ queryStart(endpoint, optarg, arg)
    /\ UNCHANGED <<variant, autoRefreshToken, accessToken, tokenExpirationTimer,
                   timers, nextTimerId, dataQuery>>

\* the token query() goes on with, were the await's value dropped
resumeTokenHeld(c) == accessToken

\* the token query() goes on with, were a held token kept when the
\* acquisition returned the empty string
resumeTokenKeepsValid(c) == IF c.token = "" THEN accessToken ELSE c.token

\* the token query() goes on with: this.accessToken = await this.acquireToken()
resumeToken(c) == c.token

\* main: query() resumes after `await this.acquireToken(parameters)`
QueryResume(i) ==
    /\ UNCHANGED <<queryParameters, facade>>
    /\ Live(i)
    /\ calls[i].pc = "resume"
    /\ accessToken' = resumeToken(calls[i])
    /\ calls' = [calls EXCEPT ![i] = Send(@, accessToken')]
    /\ UNCHANGED <<variant, autoRefreshToken, tokenExpirationTimer, timers,
                   nextTimerId, dataQuery>>

\* query(), were it to replace the cache by the one new entry
queryStoreReplacesCache(endpoint, data) ==
    IF variant = "main" /\ HasId(endpoint)
    THEN dataQuery' = (endpoint.id :> data)
    ELSE UNCHANGED dataQuery

\* MSAL.query after executeQuery: this.data.query[endpoint.id] = response.data
queryStore(endpoint, data) ==
    IF variant = "main" /\ HasId(endpoint)
    THEN dataQuery' = (endpoint.id :> data) @@ dataQuery
    ELSE UNCHANGED dataQuery

\* axios.request of frame i resolves with `response`; query() returns it
TransportResolve(i, response) ==
    /\ UNCHANGED <<queryParameters, facade>>
    /\ Live(i)
    /\ calls[i].pc = "transport"
    /\ queryStore(calls[i].endpoint, response.data)
    /\ calls' = [calls EXCEPT ![i] =
                    [@ EXCEPT !.pc = "done", !.outcome = "resolved",
                              !.response = response]]
    /\ UNCHANGED <<variant, autoRefreshToken, accessToken, tokenExpirationTimer,
                   timers, nextTimerId>>

\* the catch of executeQuery, were it to log and return nothing
executeQueryCatchSwallows(c, err) ==
    [LogError(c, err) EXCEPT !.pc = "done", !.outcome = "resolved"]

\* the catch of executeQuery, were the request sent again
executeQueryCatchRetries(c, err) ==
    [LogError(c, err) EXCEPT !.requests = Append(@, @[Len(@)])]

\* MSAL.executeQuery, axios.request rejected: main logs the error and throws
\* it again, the batch version lets it propagate; query() rejects with it
executeQueryCatch(c, err) ==
    [LogError(c, err) EXCEPT !.pc = "done", !.outcome = "rejected", !.thrown = err]

\* axios.request of frame i rejects with err
TransportReject(i, err) ==
    /\ UNCHANGED <<queryParameters, facade>>
    /\ Live(i)
    /\ calls[i].pc = "transport"
    /\ calls' = [calls EXCEPT ![i] = executeQueryCatch(@, err)]
    /\ UNCHANGED <<variant, autoRefreshToken, accessToken, tokenExpirationTimer,
                   timers, nextTimerId, dataQuery>>

\* the timeout callback, were acquireToken() called without the scopes
timerCallbackDefaultScopes(t) ==
    IF autoRefreshToken
    THEN /\ calls' = Append(calls,
                       Frame("acquireToken", "timer", <<>>, NoEndpoint, <<>>))
         /\ UNCHANGED accessToken
    ELSE /\ accessToken' = ""
         /\ UNCHANGED calls

\* the callback setAccessToken hands to window.setTimeout: with
\* autoRefreshToken this.acquireToken({ scopes }), else the token is emptied
timerCallback(t) ==
    IF autoRefreshToken
    THEN /\ calls' = Append(calls,
                       Frame("acquireToken", "timer", <<[scopes |-> t.scopes]>>,
                             NoEndpoint, <<>>))
         /\ UNCHANGED accessToken
    ELSE /\ accessToken' = ""
         /\ UNCHANGED calls

\* the timeout callback set by setAccessToken runs
TimerFire(t) ==
    /\ UNCHANGED <<queryParameters, facade>>
    /\ t \in timers
    /\ ~MicrotaskPending
    /\ timers' = timers \ {t}
    /\ autoRefreshToken => Len(calls) - Cardinality(BatchFrames) < MaxCalls
    /\ timerCallback(t)
    /\ UNCHANGED <<variant, autoRefreshToken, tokenExpirationTimer, nextTimerId,
                   dataQuery>>

----------------------------------------------------------------------------
(* The synchronous operations: constructor, login, logout, isAuthenticated *)

\* one call recorded by an operation: a collaborator's method and its
\* arguments, or one of the constructor's own steps
Ev(call, args) == [call |-> call, args |-> args]

\* one operation: its arguments, whether it threw, what it returned (nothing
\* for a void method) and what it called
Op(op, args, threw, returned, events) ==
    [op |-> op, args |-> args, threw |-> threw, returned |-> returned,
     events |-> events]

NoOp == Op("none", <<>>, FALSE, <<>>, <<>>)

\* lodash isEmpty on what getAccount answers
isEmpty(value) == value.type = "null" \/ DOMAIN value.fields = {}

\* !!value
Truthy(value) == value.type # "null"

\* !clientId
Falsy(clientId) == clientId \in {"", Null, Undefined}

\* MSAL.isAuthenticated, were the account looked up before the callback test
isAuthenticatedCallsNoShortCircuit == <<Ev("isCallback", <<>>), Ev("getAccount", <<>>)>>

\* MSAL.isAuthenticated, the collaborator calls it makes: && does not evaluate
\* its right operand when the left one is false
isAuthenticatedCalls ==
    IF isCallback
    THEN <<Ev("isCallback", <<>>)>>
    ELSE <<Ev("isCallback", <<>>), Ev("getAccount", <<>>)>>

\* MSAL.isAuthenticated, the value it returns: main tests the account with
\* isEmpty, the batch version with !!
isAuthenticated ==
    /\ ~isCallback
    /\ IF variant = "main" THEN ~isEmpty(account) ELSE Truthy(account)

\* MSAL.login, were loginRedirect called without the parameters
loginCallsNoParameters ==
    isAuthenticatedCalls \o
        (IF ~isAuthenticated THEN <<Ev("loginRedirect", <<>>)>> ELSE <<>>)

\* MSAL.login, the collaborator calls it makes
loginCalls ==
    isAuthenticatedCalls \o
        (IF ~isAuthenticated
         THEN <<Ev("loginRedirect", <<queryParameters>>)>>
         ELSE <<>>)

\* MSAL.logout, were the test of isAuthenticated left out
logoutCallsUnguarded == isAuthenticatedCalls \o <<Ev("logout", <<>>)>>

\* MSAL.logout, the collaborator calls it makes
logoutCalls ==
    isAuthenticatedCalls \o
        (IF isAuthenticated THEN <<Ev("logout", <<>>)>> ELSE <<>>)

\* the constructor's first statement, were only an absent clientId refused
constructorThrowsOnAbsentOnly(cfg) == cfg.clientId = Undefined

\* the constructor's first statement: if (!config.auth.clientId) throw
constructorThrows(cfg) == Falsy(cfg.clientId)

\* Object.assign(this.queryConfig, config.query) for the request parameters
ParametersAfter(cfg) ==
    IF cfg.parameters = <<>> THEN queryParameters ELSE cfg.parameters[1]

\* Object.assign(this.queryConfig, config.query) on endpoints: a key that is
\* given replaces the default, also when its value is undefined
EndpointsAfter(cfg) ==
    IF cfg.endpoints = <<>> THEN <<DefaultEndpoints>> ELSE cfg.endpoints[1]

\* the constructor from new UserAgentApplicationExtended on, were login()
\* called after the authentication state is stored
constructorCallsLoginLast(cfg) ==
    <<Ev("new UserAgentApplicationExtended", <<>>)>>
    \o isAuthenticatedCalls
    \o <<Ev("data.isAuthenticated=", <<>>)>>
    \o (IF isAuthenticated THEN <<Ev("getAccount", <<>>)>> ELSE <<>>)
    \o (IF isAuthenticated /\ variant = "batch"
        THEN <<Ev("acquireToken", <<>>)>> ELSE <<>>)
    \o (IF cfg.requireAuthOnInitialize
        THEN <<Ev("login", <<>>)>> \o loginCalls ELSE <<>>)

\* the constructor from new UserAgentApplicationExtended on: the calls it
\* makes and the steps it takes, in order
constructorCalls(cfg) ==
    <<Ev("new UserAgentApplicationExtended", <<>>)>>
    \o (IF cfg.requireAuthOnInitialize
        THEN <<Ev("login", <<>>)>> \o loginCalls ELSE <<>>)
    \o isAuthenticatedCalls
    \o <<Ev("data.isAuthenticated=", <<>>)>>
    \o (IF isAuthenticated THEN <<Ev("getAccount", <<>>)>> ELSE <<>>)
    \o (IF isAuthenticated /\ variant = "batch"
        THEN <<Ev("acquireToken", <<>>)>> ELSE <<>>)

\* the constructor, were data.user stored whatever isAuthenticated() says
constructorUserUnguarded == account

\* the constructor: if (this.data.isAuthenticated) this.data.user = getAccount()
constructorUser == IF isAuthenticated THEN account ELSE NoUser

\* new MSAL(cfg)
Construct(cfg) ==
    /\ UNCHANGED <<baseUrl, applied>>
    /\ phase # "ready"
    /\ UNCHANGED <<variant, accessToken, tokenExpirationTimer, timers,
                   nextTimerId, dataQuery, isCallback, account, store, batch>>
    /\ IF constructorThrows(cfg)
       THEN /\ phase' = "failed"
            /\ lastOp' = Op("new MSAL", <<cfg>>, TRUE, <<>>, <<>>)
            /\ UNCHANGED <<autoRefreshToken, queryParameters, callAfterInit,
                           endpoints, dataIsAuthenticated, dataUser, calls>>
       ELSE /\ phase' = "ready"
            /\ autoRefreshToken' = cfg.autoRefreshToken
            /\ queryParameters' = ParametersAfter(cfg)
            /\ callAfterInit' = cfg.callAfterInit
            /\ endpoints' = EndpointsAfter(cfg)
            /\ lastOp' = Op("new MSAL", <<cfg>>, FALSE, <<>>, constructorCalls(cfg)')
            /\ dataIsAuthenticated' = isAuthenticated
            /\ dataUser' = constructorUser
            /\ calls' = IF isAuthenticated /\ variant = "batch"
                        THEN Append(calls,
                                 [Frame("acquireToken", "init", <<>>, NoEndpoint, <<>>)
                                     EXCEPT !.silentArgs = <<ParametersAfter(cfg)>>])
                        ELSE calls

\* msal.login()
Login ==
    /\ UNCHANGED <<baseUrl, applied, endpoints>>
    /\ phase = "ready"
    /\ lastOp' = Op("login", <<>>, FALSE, <<>>, loginCalls)
    /\ UNCHANGED <<variant, autoRefreshToken, accessToken, tokenExpirationTimer,
                   timers, nextTimerId, dataQuery, calls, queryParameters,
                   phase, isCallback, account, callAfterInit,
                   dataIsAuthenticated, dataUser, store, batch>>

\* msal.logout()
Logout ==
    /\ UNCHANGED <<baseUrl, applied, endpoints>>
    /\ phase = "ready"
    /\ lastOp' = Op("logout", <<>>, FALSE, <<>>, logoutCalls)
    /\ UNCHANGED <<variant, autoRefreshToken, accessToken, tokenExpirationTimer,
                   timers, nextTimerId, dataQuery, calls, queryParameters,
                   phase, isCallback, account, callAfterInit,
                   dataIsAuthenticated, dataUser, store, batch>>

\* msal.isAuthenticated()
IsAuthenticated ==
    /\ UNCHANGED <<baseUrl, applied, endpoints>>
    /\ phase = "ready"
    /\ lastOp' = Op("isAuthenticated", <<>>, FALSE, <<isAuthenticated>>,
                   isAuthenticatedCalls)
    /\ UNCHANGED <<variant, autoRefreshToken, accessToken, tokenExpirationTimer,
                   timers, nextTimerId, dataQuery, calls, queryParameters,
                   phase, isCallback, account, callAfterInit,
                   dataIsAuthenticated, dataUser, store, batch>>

\* between two operations the page's location or the identity client's
\* account changes
LocationOrAccountChanges(callback, acc) ==
    /\ UNCHANGED <<baseUrl, applied, endpoints>>
    /\ ~MicrotaskPending
    /\ <<callback, acc>> # <<isCallback, account>>
    /\ isCallback' = callback
    /\ account' = acc
    /\ UNCHANGED <<variant, autoRefreshToken, accessToken, tokenExpirationTimer,
                   timers, nextTimerId, dataQuery, calls, queryParameters,
                   phase, callAfterInit, dataIsAuthenticated, dataUser, lastOp,
                   store, batch>>

----------------------------------------------------------------------------
(* The constructor's continuation and MSAL.initialQuery (batch) *)

\* the key of the durable cache entry: `msal.query-${this.data.accessToken}`
StoreKey(token) == "msal.query-" \o token

\* JSON.stringify({...results}) and JSON.parse of it: the entries whose value
\* is undefined are left out
JsonRoundTrip(results) ==
    [id \in {k \in DOMAIN results : results[k] # Undefined} |-> results[id]]

\* this.lib.store.getItem(key), parsed; nothing when there is no entry
Stored(key) == IF key \in DOMAIN store THEN store[key] ELSE <<>>

\* what an earlier session's batch left in the durable cache under the token
\* it held
EarlierStore == ("msal.query-t1" :> ("profile" :> "b0"))

RECURSIVE StartQueries(_, _)
\* initialQuery: this.query(endpoint, {method: "GET", responseType: "json"})
\* for every endpoint of the sequence, each up to its await of axios.request
StartQueries(queries, token) ==
    IF queries = <<>> THEN <<>>
    ELSE <<Send([Frame("query", "batch", <<>>,
                       [url |-> queries[1].url, id |-> queries[1].id],
                       QueryDefaultOptions)
                    EXCEPT !.acq = "none", !.silentArgs = <<>>],
                token)>>
         \o StartQueries(Tail(queries), token)

\* the endpoints to request, were the durable cache entry not consulted
NotStoredAll(map, stored) == map

\* the endpoints whose id the durable cache entry does not hold
NotStored(map, stored) ==
    SelectSeq(map, LAMBDA e : e.id \notin DOMAIN stored)

\* the constructor's then-callback, were the batch run whatever the flag
runsInitialQueryAlways == TRUE

\* the constructor's then-callback: if (this.queryConfig.callAfterInit)
runsInitialQuery == callAfterInit

\* acquireToken() of the constructor has resolved and its then-callback runs:
\* with callAfterInit, initialQuery() reads the durable cache and sends the
\* requests of the endpoints not cached, then awaits them all; with
\* endpoints undefined it returns at once
InitThen(i) ==
    /\ UNCHANGED <<baseUrl, applied, endpoints>>
    /\ Live(i)
    /\ calls[i].pc = "then"
    /\ IF runsInitialQuery /\ endpoints # <<>>
       THEN /\ batch' = [state |-> "pending", key |-> StoreKey(accessToken),
                         results |-> Stored(StoreKey(accessToken))]
            /\ calls' = [calls EXCEPT ![i] = [@ EXCEPT !.pc = "done"]]
                        \o StartQueries(
                               NotStored(endpoints[1],
                                         Stored(StoreKey(accessToken))),
                               accessToken)
       ELSE /\ calls' = [calls EXCEPT ![i] = [@ EXCEPT !.pc = "done"]]
            /\ batch' = IF runsInitialQuery
                        THEN [batch EXCEPT !.state = "skipped"]
                        ELSE batch
    /\ UNCHANGED <<variant, autoRefreshToken, accessToken, tokenExpirationTimer,
                   timers, nextTimerId, dataQuery, queryParameters,
                   phase, isCallback, account, callAfterInit,
                   dataIsAuthenticated, dataUser, lastOp, store>>

RECURSIVE Responses(_)
\* the responses of the batch, were only the first request's kept
ResponsesFirstOnly(frames) ==
    IF frames = {} THEN <<>>
    ELSE LET i == CHOOSE j \in frames : \A k \in frames : j <= k
         IN  (calls[i].endpoint.id :> calls[i].response.data)

\* the responses of the batch, by endpoint id
Responses(frames) ==
    IF frames = {} THEN <<>>
    ELSE LET i == CHOOSE j \in frames : \A k \in frames : j <= k
         IN  Responses(frames \ {i})
             @@ (calls[i].endpoint.id :> calls[i].response.data)

\* Promise.all of initialQuery() settles: rejected as soon as one request is,
\* otherwise, once all have resolved, the responses are merged over the cached
\* results, stored in data.query and written to the durable cache under the
\* key of the token held now
BatchSettle ==
    /\ UNCHANGED <<baseUrl, applied, endpoints>>
    /\ batch.state = "pending"
    /\ BatchReady
    /\ IF batchRejects
       THEN /\ batch' = [batch EXCEPT !.state = "rejected"]
            /\ UNCHANGED <<dataQuery, store>>
       ELSE /\ LET results == Responses(BatchFrames) @@ batch.results
               IN  /\ dataQuery' = results
                   /\ store' = (StoreKey(accessToken) :> JsonRoundTrip(results))
                                  @@ store
                   /\ batch' = [batch EXCEPT !.state = "resolved",
                                             !.results = results]
    /\ UNCHANGED <<variant, autoRefreshToken, accessToken, tokenExpirationTimer,
                   timers, nextTimerId, calls, queryParameters,
                   phase, isCallback, account, callAfterInit,
                   dataIsAuthenticated, dataUser, lastOp>>

\* the page is loaded anew: the session object, its pending promises and
\* timeouts are gone, the durable cache stays
PageReload ==
    /\ phase # "new"
    /\ ~MicrotaskPending
    /\ autoRefreshToken' = TRUE
    /\ accessToken' = ""
    /\ tokenExpirationTimer' = 0
    /\ timers' = {}
    /\ nextTimerId' = 1
    /\ dataQuery' = <<>>
    /\ queryParameters' = DefaultParameters
    /\ calls' = <<>>
    /\ phase' = "new"
    /\ callAfterInit' = FALSE
    /\ dataIsAuthenticated' = FALSE
    /\ dataUser' = NoUser
    /\ lastOp' = NoOp
    /\ batch' = NoBatch
    /\ endpoints' = <<DefaultEndpoints>>
    /\ UNCHANGED <<variant, isCallback, account, store, baseUrl, applied>>

----------------------------------------------------------------------------
(* The plugin: the object MSALPlugin's constructor returns *)

\* frame c is an invocation that has not settled
Outstanding(c) == c.pc # "done"

\* what login() or logout() does to an invocation in flight, were it aborted
whileOutstandingAborted(c, op) ==
    IF Outstanding(c)
    THEN [c EXCEPT !.pc = "done", !.outcome = "rejected", !.during = @ \cup {op}]
    ELSE c

\* what login() or logout() does to an invocation in flight: nothing, they
\* only call lib.loginRedirect or lib.logout; the frame notes that the
\* operation ran meanwhile
whileOutstanding(c, op) ==
    IF Outstanding(c) THEN [c EXCEPT !.during = @ \cup {op}] ELSE c

\* this.data after login() or logout(), were it read again from the identity
\* client
dataAfterRefreshed(op) ==
    [isAuthenticated |-> isAuthenticated, user |-> constructorUser]

\* this.data after login() or logout(): neither writes to it
dataAfter(op) == [isAuthenticated |-> dataIsAuthenticated, user |-> dataUser]

\* $msal.login(): msal.login()
PluginLogin ==
    /\ phase = "ready"
    /\ ~MicrotaskPending
    /\ lastOp' = Op("login", <<>>, FALSE, <<>>, loginCalls)
    /\ calls' = [i \in 1..Len(calls) |-> whileOutstanding(calls[i], "login")]
    /\ dataIsAuthenticated' = dataAfter("login").isAuthenticated
    /\ dataUser' = dataAfter("login").user
    /\ UNCHANGED <<variant, autoRefreshToken, accessToken, tokenExpirationTimer,
                   timers, nextTimerId, dataQuery, queryParameters,
                   phase, isCallback, account, callAfterInit,
                   store, batch, baseUrl, applied, endpoints>>

\* $msal.logout(): msal.logout()
PluginLogout ==
    /\ phase = "ready"
    /\ ~MicrotaskPending
    /\ lastOp' = Op("logout", <<>>, FALSE, <<>>, logoutCalls)
    /\ calls' = [i \in 1..Len(calls) |-> whileOutstanding(calls[i], "logout")]
    /\ dataIsAuthenticated' = dataAfter("logout").isAuthenticated
    /\ dataUser' = dataAfter("logout").user
    /\ UNCHANGED <<variant, autoRefreshToken, accessToken, tokenExpirationTimer,
                   timers, nextTimerId, dataQuery, queryParameters,
                   phase, isCallback, account, callAfterInit,
                   store, batch, baseUrl, applied, endpoints>>

\* the parameters the plugin's query hands on: msal.query(endpoint, options)
\* has no third argument
pluginQueryParameters(arg) == <<>>

\* $msal.query(endpoint, options, parameters): msal.query(endpoint, options);
\* the batch version's facade declares no parameters
PluginQuery(endpoint, optarg, arg) ==
    /\ phase = "ready"
    /\ Len(calls) < MaxPluginQueries
    /\ ~MicrotaskPending
    /\ variant = "batch" => arg = <<>>
    /\ queryStart(endpoint, optarg, pluginQueryParameters(arg))
    /\ lastOp' = Op("query", <<endpoint, optarg, arg>>, FALSE, <<>>, <<>>)
    /\ UNCHANGED <<variant, autoRefreshToken, accessToken, tokenExpirationTimer,
                   timers, nextTimerId, dataQuery, queryParameters,
                   phase, isCallback, account, callAfterInit,
                   dataIsAuthenticated, dataUser, store, batch, baseUrl, applied, endpoints>>

\* $msal.acquireToken(request): msal.acquireToken(request), the batch
\* version's facade only
PluginAcquireToken(arg) ==
    /\ variant = "batch"
    /\ phase = "ready"
    /\ Len(calls) < MaxPluginQueries
    /\ CallAcquireToken(arg)

----------------------------------------------------------------------------
(* The helpers on objects: what createQuery and executeQuery read and write *)

\* a reference to the k-th object of a heap
Ref(k) == [ref |-> k]

\* the caller's objects: the endpoint descriptor (when it is no string), the
\* headers object (when the options have one) and the options object, whose
\* headers field refers to the headers object
CallerHeap(endpoint, options) ==
    LET descriptor == IF IsString(endpoint) THEN <<>> ELSE <<endpoint>>
        headers == IF "headers" \in DOMAIN options THEN <<options.headers>> ELSE <<>>
        object == IF "headers" \in DOMAIN options
                  THEN [options EXCEPT !.headers = Ref(Len(descriptor) + 1)]
                  ELSE options
    IN  descriptor \o headers \o <<object>>

\* the endpoint argument as the caller passes it: the string, or a reference
EndpointArgument(endpoint) == IF IsString(endpoint) THEN endpoint ELSE Ref(1)

\* the object a reference points to, with its headers read through
Deref(heap, r) ==
    LET object == heap[r.ref]
    IN  IF "headers" \in DOMAIN object
        THEN [object EXCEPT !.headers = heap[object.headers.ref]]
        ELSE object

\* createQuery on a heap, were the endpoint descriptor spread into the query
createQueryHeapSpreadsEndpoint(heap, endpoint, options) ==
    LET wrapped == IF IsString(endpoint)
                   THEN Append(heap, [url |-> endpoint.str])
                   ELSE heap
        e == IF IsString(endpoint) THEN Ref(Len(wrapped)) ELSE endpoint
    IN  IF wrapped[e.ref].url = UrlEmpty
        THEN [threw |-> TRUE, heap |-> wrapped, query |-> Ref(0)]
        ELSE [threw |-> FALSE,
              heap |-> Append(wrapped, wrapped[e.ref] @@ wrapped[options.ref]),
              query |-> Ref(Len(wrapped) + 1)]

\* MSAL.createQuery on a heap: `endpoint = { url: endpoint }` makes a new
\* object, the spread of options makes a new object that shares the headers
createQueryHeap(heap, endpoint, options) ==
    LET wrapped == IF IsString(endpoint)
                   THEN Append(heap, [url |-> endpoint.str])
                   ELSE heap
        e == IF IsString(endpoint) THEN Ref(Len(wrapped)) ELSE endpoint
        url == wrapped[e.ref].url
    IN  IF url = UrlEmpty
        THEN [threw |-> TRUE, heap |-> wrapped, query |-> Ref(0)]
        ELSE LET query ==
                     IF variant = "main"
                     THEN [url |-> url] @@ wrapped[options.ref]
                     ELSE [url |-> url,
                           id |-> IF "id" \in DOMAIN wrapped[e.ref]
                                  THEN wrapped[e.ref].id ELSE "defaultID-0"]
                          @@ wrapped[options.ref]
             IN  [threw |-> FALSE, heap |-> Append(wrapped, query),
                  query |-> Ref(Len(wrapped) + 1)]

\* the headers step of executeQuery, were Authorization assigned into the
\* headers object of the query
setAuthorizationInPlace(heap, query, token) ==
    IF "headers" \in DOMAIN heap[query.ref]
    THEN [heap EXCEPT ![heap[query.ref].headers.ref] =
                          [Authorization |-> Bearer(token)] @@ @]
    ELSE [Append(heap, [Authorization |-> Bearer(token)])
             EXCEPT ![query.ref] = [headers |-> Ref(Len(heap) + 1)] @@ @]

\* MSAL.executeQuery: query.headers = { ...query.headers, Authorization }
\* makes a new headers object and stores its reference in the query
setAuthorization(heap, query, token) ==
    LET old == IF "headers" \in DOMAIN heap[query.ref]
               THEN heap[heap[query.ref].headers.ref]
               ELSE <<>>
    IN  [Append(heap, [Authorization |-> Bearer(token)] @@ old)
            EXCEPT ![query.ref] = [headers |-> Ref(Len(heap) + 1)] @@ @]

\* MSAL.executeQuery on a heap, up to axios.request(query)
executeQueryHeap(heap, endpoint, options, token) ==
    LET created == createQueryHeap(heap, endpoint, options)
        q == created.query
        url == created.heap[q.ref].url
        based == IF NotHttp(url) /\ baseUrl # <<>>
                 THEN [created.heap EXCEPT ![q.ref].url = baseUrl[1] \o url]
                 ELSE created.heap
    IN  IF created.threw
        THEN created
        ELSE [threw |-> FALSE, heap |-> setAuthorization(based, q, token),
              query |-> q]

----------------------------------------------------------------------------
(* The helpers applied to inputs of every kind *)

\* error codes as the identity client may report them, and null
PureCodes == ErrorCodes \cup {Null, "LOGIN_REQUIRED", "login_required "}

\* urls: empty, a path, absolute, a path that holds "http" further on, and a
\* prefix of "http"
UrlPathWithHttp == <<"/">> \o Http
UrlShort == <<"h", "t", "t">>
PureUrls == {UrlEmpty, UrlPath, UrlAbsolute, UrlPathWithHttp, UrlShort}

\* endpoints: bare strings, descriptors, descriptors with an id
PureEndpoints ==
    {[str |-> u] : u \in PureUrls}
    \cup {[url |-> u] : u \in PureUrls}
    \cup {[url |-> u, id |-> "profile"] : u \in PureUrls}

\* options: an empty object, the default of query(), a caller's with headers
PureOptions == {<<>>, QueryDefaultOptions, CallerOptions}

\* requiresInteraction(code) is called
ApplyRequiresInteraction(code) ==
    /\ applied' = [fn |-> "requiresInteraction", code |-> code,
                   threw |-> FALSE, value |-> requiresInteraction(code)]
    /\ UNCHANGED <<variant, autoRefreshToken, accessToken, tokenExpirationTimer,
                   timers, nextTimerId, dataQuery, calls, queryParameters,
                   phase, isCallback, account, callAfterInit,
                   dataIsAuthenticated, dataUser, lastOp, store, batch, baseUrl, endpoints>>

\* createQuery(endpoint, options) is called on the caller's objects
ApplyCreateQuery(endpoint, options) ==
    /\ LET before == CallerHeap(endpoint, options)
           result == createQueryHeap(before, EndpointArgument(endpoint),
                                     Ref(Len(before)))
       IN  applied' = [fn |-> "createQuery", endpoint |-> endpoint,
                       options |-> options, threw |-> result.threw,
                       before |-> before, after |-> result.heap,
                       value |-> IF result.threw THEN <<>>
                                 ELSE <<Deref(result.heap, result.query)>>]
    /\ UNCHANGED <<variant, autoRefreshToken, accessToken, tokenExpirationTimer,
                   timers, nextTimerId, dataQuery, calls, queryParameters,
                   phase, isCallback, account, callAfterInit,
                   dataIsAuthenticated, dataUser, lastOp, store, batch, baseUrl, endpoints>>

\* executeQuery(endpoint, options) is called on the caller's objects while
\* the held token is `token`; value is the request axios.request receives
ApplyExecuteQuery(endpoint, options, token) ==
    /\ accessToken' = token
    /\ LET before == CallerHeap(endpoint, options)
           result == executeQueryHeap(before, EndpointArgument(endpoint),
                                      Ref(Len(before)), token)
       IN  applied' = [fn |-> "executeQuery", endpoint |-> endpoint,
                       options |-> options, threw |-> result.threw,
                       before |-> before, after |-> result.heap,
                       value |-> IF result.threw THEN <<>>
                                 ELSE <<Deref(result.heap, result.query)>>]
    /\ UNCHANGED <<variant, autoRefreshToken, tokenExpirationTimer,
                   timers, nextTimerId, dataQuery, calls, queryParameters,
                   phase, isCallback, account, callAfterInit,
                   dataIsAuthenticated, dataUser, lastOp, store, batch, baseUrl, endpoints>>

\* system.tokenRenewalOffsetSeconds of the configuration handed to the
\* identity client, in seconds: absent, or given
RenewalOffsets == {<<>>, <<0>>, <<2>>, <<300>>}

\* Date.getTime() of the moment setAccessToken runs and of expiresOn, in
\* milliseconds
Nows == {0, 1000}
ExpiresOns == {5000, 3600000}

\* setAccessToken: tokenRenewalOffset || 0
expirationOffset(offset) == IF offset = <<>> THEN 0 ELSE offset[1]

\* setAccessToken: expiresOn.getTime() - new Date().getTime() - expirationOffset,
\* the delay handed to window.setTimeout
expiration(expiresOn, now, offset) == expiresOn - now - expirationOffset(offset)

\* setAccessToken computes the delay of its timeout
ApplyExpiration(expiresOn, now, offset) ==
    /\ applied' = [fn |-> "expiration", expiresOn |-> expiresOn, now |-> now,
                   offset |-> offset, threw |-> FALSE,
                   value |-> expiration(expiresOn, now, offset)]
    /\ UNCHANGED <<variant, autoRefreshToken, accessToken, tokenExpirationTimer,
                   timers, nextTimerId, dataQuery, calls, queryParameters,
                   phase, isCallback, account, callAfterInit,
                   dataIsAuthenticated, dataUser, lastOp, store, batch, baseUrl, endpoints>>

----------------------------------------------------------------------------
(* The specifications *)

\* the state the constructor leaves: no token, no timer, an empty cache; the
\* batch version has started acquireToken() when the user is authenticated
Init ==
    /\ variant \in {"main", "batch"}
    /\ autoRefreshToken \in BOOLEAN
    /\ accessToken = ""
    /\ tokenExpirationTimer = 0
    /\ timers = {}
    /\ nextTimerId = 1
    /\ dataQuery = <<>>
    /\ queryParameters = DefaultParameters
    /\ calls \in IF variant = "main"
                 THEN {<<>>}
                 ELSE {<<>>, <<Frame("acquireToken", "init", <<>>, NoEndpoint, <<>>)>>}
    /\ phase = "ready"
    /\ isCallback = FALSE
    /\ account = IF variant = "batch" /\ calls = <<>> THEN NullAccount ELSE UserAccount
    /\ callAfterInit = FALSE
    /\ dataIsAuthenticated = isAuthenticated
    /\ dataUser = constructorUser
    /\ lastOp = NoOp
    /\ store = <<>>
    /\ batch = NoBatch
    /\ baseUrl = <<BaseUrl>>
    /\ endpoints = <<DefaultEndpoints>>
    /\ applied = NotApplied

Next ==
    \/ \E arg \in ParameterArgs : CallAcquireToken(arg)
    \/ \E q \in QueryInputs : CallQuery(q[1], q[2], q[3])
    \/ \E i \in 1..MaxCalls, token \in Tokens, scopes \in ResponseScopes :
          SilentResolve(i, token, scopes)
    \/ \E i \in 1..MaxCalls, errorCode \in ErrorCodes : SilentReject(i, errorCode)
    \/ \E i \in 1..MaxCalls : QueryResume(i)
    \/ \E i \in 1..MaxCalls, response \in TransportResponses :
          TransportResolve(i, response)
    \/ \E i \in 1..MaxCalls : TransportReject(i, TransportError)
    \/ \E t \in timers : TimerFire(t)
    \/ \E i \in 1..MaxCalls : InitThen(i)

Spec == Init /\ [][Next]_vars

\* the state the field initialisers leave, before the constructor's body: the
\* defaults of authConfig and queryConfig, and an identity client that may or
\* may not hold an account
SessionInit ==
    /\ variant \in {"main", "batch"}
    /\ autoRefreshToken = TRUE
    /\ accessToken = ""
    /\ tokenExpirationTimer = 0
    /\ timers = {}
    /\ nextTimerId = 1
    /\ dataQuery = <<>>
    /\ queryParameters = DefaultParameters
    /\ calls = <<>>
    /\ phase = "new"
    /\ isCallback \in BOOLEAN
    /\ account \in Accounts
    /\ callAfterInit = FALSE
    /\ dataIsAuthenticated = FALSE
    /\ dataUser = NoUser
    /\ lastOp = NoOp
    /\ store = <<>>
    /\ batch = NoBatch
    /\ baseUrl = <<BaseUrl>>
    /\ endpoints = <<DefaultEndpoints>>
    /\ applied = NotApplied

SessionNext ==
    \/ \E cfg \in Configs : Construct(cfg)
    \/ Login
    \/ Logout
    \/ IsAuthenticated
    \/ \E callback \in BOOLEAN, acc \in Accounts : LocationOrAccountChanges(callback, acc)
    \/ \E i \in 1..Len(calls), token \in Tokens, scopes \in ResponseScopes :
          SilentResolve(i, token, scopes)
    \/ \E i \in 1..Len(calls), errorCode \in ErrorCodes : SilentReject(i, errorCode)
    \/ \E t \in timers : TimerFire(t)
    \/ \E i \in 1..Len(calls) : InitThen(i)
    \/ \E i \in 1..Len(calls), response \in TransportResponses :
          TransportResolve(i, response)
    \/ \E i \in 1..Len(calls) : TransportReject(i, TransportError)
    \/ BatchSettle

SpecSession == SessionInit /\ [][SessionNext]_vars

\* the batch version before its constructor's body, the user signed in, the
\* durable cache empty or left by an earlier session
BatchInit ==
    /\ variant = "batch"
    /\ autoRefreshToken = TRUE
    /\ accessToken = ""
    /\ tokenExpirationTimer = 0
    /\ timers = {}
    /\ nextTimerId = 1
    /\ dataQuery = <<>>
    /\ queryParameters = DefaultParameters
    /\ calls = <<>>
    /\ phase = "new"
    /\ isCallback = FALSE
    /\ account = UserAccount
    /\ callAfterInit = FALSE
    /\ dataIsAuthenticated = FALSE
    /\ dataUser = NoUser
    /\ lastOp = NoOp
    /\ store \in {<<>>, EarlierStore}
    /\ batch = NoBatch
    /\ baseUrl = <<BaseUrl>>
    /\ endpoints = <<DefaultEndpoints>>
    /\ applied = NotApplied

\* construction with the batch requested, and what the event loop runs then
BatchNext ==
    \/ \E cfg \in BatchConfigs : Construct(cfg)
    \/ \E i \in 1..Len(calls), token \in Tokens, scopes \in ResponseScopes :
          SilentResolve(i, token, scopes)
    \/ \E i \in 1..Len(calls), errorCode \in ErrorCodes : SilentReject(i, errorCode)
    \/ \E t \in timers : TimerFire(t)
    \/ \E i \in 1..Len(calls) : InitThen(i)
    \/ \E i \in 1..Len(calls), response \in TransportResponses :
          TransportResolve(i, response)
    \/ \E i \in 1..Len(calls) : TransportReject(i, TransportError)
    \/ BatchSettle
    \/ PageReload

SpecBatch == BatchInit /\ [][BatchNext]_vars

\* a constructed session of a signed-in user
FacadeInit ==
    /\ variant \in {"main", "batch"}
    /\ autoRefreshToken \in BOOLEAN
    /\ accessToken = ""
    /\ tokenExpirationTimer = 0
    /\ timers = {}
    /\ nextTimerId = 1
    /\ dataQuery = <<>>
    /\ queryParameters = DefaultParameters
    /\ calls = <<>>
    /\ phase = "ready"
    /\ isCallback = FALSE
    /\ account = UserAccount
    /\ callAfterInit = FALSE
    /\ dataIsAuthenticated = isAuthenticated
    /\ dataUser = constructorUser
    /\ lastOp = NoOp
    /\ store = <<>>
    /\ batch = NoBatch
    /\ baseUrl = <<BaseUrl>>
    /\ endpoints = <<DefaultEndpoints>>
    /\ applied = NotApplied

\* the host works on the session through the plugin
FacadeNext ==
    \/ PluginLogin
    \/ PluginLogout
    \/ IsAuthenticated
    \/ \E q \in QueryInputs : PluginQuery(q[1], q[2], q[3])
    \/ \E arg \in ParameterArgs : PluginAcquireToken(arg)
    \/ \E acc \in {NullAccount, UserAccount} : LocationOrAccountChanges(FALSE, acc)
    \/ \E i \in 1..MaxCalls, token \in Tokens, scopes \in ResponseScopes :
          SilentResolve(i, token, scopes)
    \/ \E i \in 1..MaxCalls, errorCode \in ErrorCodes : SilentReject(i, errorCode)
    \/ \E i \in 1..MaxCalls : QueryResume(i)
    \/ \E i \in 1..MaxCalls, response \in TransportResponses :
          TransportResolve(i, response)
    \/ \E i \in 1..MaxCalls : TransportReject(i, TransportError)
    \/ \E t \in timers : TimerFire(t)

SpecFacade == FacadeInit /\ [][FacadeNext]_vars

\* a constructed session whose base URL is the default, the empty string, or
\* undefined
PureInit ==
    /\ variant \in {"main", "batch"}
    /\ autoRefreshToken = TRUE
    /\ accessToken = ""
    /\ tokenExpirationTimer = 0
    /\ timers = {}
    /\ nextTimerId = 1
    /\ dataQuery = <<>>
    /\ queryParameters = DefaultParameters
    /\ calls = <<>>
    /\ phase = "ready"
    /\ isCallback = FALSE
    /\ account = UserAccount
    /\ callAfterInit = FALSE
    /\ dataIsAuthenticated = TRUE
    /\ dataUser = UserAccount
    /\ lastOp = NoOp
    /\ store = <<>>
    /\ batch = NoBatch
    /\ baseUrl \in {<<>>, <<UrlEmpty>>, <<BaseUrl>>}
    /\ endpoints = <<DefaultEndpoints>>
    /\ applied = NotApplied

PureNext ==
    \/ \E code \in PureCodes : ApplyRequiresInteraction(code)
    \/ \E endpoint \in PureEndpoints, options \in PureOptions :
          ApplyCreateQuery(endpoint, options)
    \/ \E endpoint \in PureEndpoints, options \in PureOptions,
          token \in Tokens \cup {""} :
          ApplyExecuteQuery(endpoint, options, token)
    \/ \E expiresOn \in ExpiresOns, now \in Nows, offset \in RenewalOffsets :
          ApplyExpiration(expiresOn, now, offset)

SpecPure == PureInit /\ [][PureNext]_vars

----------------------------------------------------------------------------
(* Properties *)

Frames == {calls[i] : i \in 1..Len(calls)}

InteractionCodes == {"consent_required", "interaction_required", "login_required"}

\* frame i exists before the step and its silent acquisition ends in it
SilentEnds(i) == Live(i) /\ calls[i].pc = "silent" /\ calls'[i].pc # "silent"

\* the requests of frame i in a sequence of frames; none when i is no frame
RequestsIn(cs, i) == IF i \in 1..Len(cs) THEN cs[i].requests ELSE <<>>

\* C1: acquireToken never raises to its caller: whatever the outcome of the
\* silent acquisition, the call resolves with a value, and after a rejection
\* (interaction-required code, other code, empty code, no code) the value is
\* the empty string.
C1_AcquireTokenNeverRaises ==
    \A c \in Frames :
        /\ c.op = "acquireToken" => c.outcome # "rejected"
        /\ c.acq \in {"ok", "failed"} =>
              /\ c.token # Undefined
              /\ c.op = "acquireToken" => c.outcome = "resolved"
        /\ c.acq = "failed" => c.token = ""

\* C1 witness: one call rejected without any error code and one rejected with
\* an interaction-required code have both resolved to the empty string
C1_Witness ==
    \E c, d \in Frames :
        /\ c.op = "acquireToken" /\ c.acq = "failed" /\ c.error = Undefined
        /\ c.outcome = "resolved" /\ c.token = ""
        /\ d.op = "acquireToken" /\ d.acq = "failed" /\ d.error \in InteractionCodes
        /\ d.outcome = "resolved" /\ d.token = ""

\* C2: when the silent acquisition succeeds, acquireToken has called
\* acquireTokenSilent exactly once, with the parameters it was given (the
\* default parameters when it was given none), the token it resolves to is an
\* access token of the identity client, and that token is the held token when
\* acquireToken returns.
C2_SuccessStoresAndReturnsToken ==
    [][\A i \in 1..MaxCalls :
          (SilentEnds(i) /\ calls'[i].acq = "ok") =>
              /\ calls'[i].silentArgs =
                    <<IF calls[i].arg = <<>> THEN DefaultParameters
                      ELSE calls[i].arg[1]>>
              /\ calls'[i].token \in Tokens
              /\ accessToken' = calls'[i].token
              /\ calls[i].op = "acquireToken" => calls'[i].outcome = "resolved"]_vars

\* C2 witness: acquireToken() without parameters has resolved to the token
\* that is now held
C2_Witness ==
    \E c \in Frames :
        /\ c.op = "acquireToken" /\ c.by = "caller" /\ c.arg = <<>>
        /\ c.acq = "ok" /\ c.outcome = "resolved"
        /\ c.token \in Tokens /\ accessToken = c.token
        /\ c.silentArgs = <<DefaultParameters>>

\* C3: when the silent acquisition rejects with consent_required,
\* interaction_required or login_required, acquireToken has called
\* acquireTokenRedirect exactly once, with the parameters of the failed
\* acquisition, and resolves to the empty string.
C3_InteractionRequiredRedirectsOnce ==
    \A c \in Frames :
        (c.acq = "failed" /\ c.error \in InteractionCodes) =>
            /\ c.redirects = c.silentArgs
            /\ Len(c.redirects) = 1
            /\ c.redirects[1] = (IF c.arg = <<>> THEN DefaultParameters ELSE c.arg[1])
            /\ c.token = ""

\* C3 witness: a call with explicit parameters was rejected with
\* login_required and redirected with those parameters
C3_Witness ==
    \E c \in Frames :
        /\ c.acq = "failed" /\ c.error = "login_required"
        /\ c.arg = <<OtherParameters>>
        /\ c.redirects = <<OtherParameters>>
        /\ c.token = ""

\* C4: an invocation whose silent acquisition was rejected with an absent,
\* empty or unrecognized error code (or was not rejected at all) has never
\* called acquireTokenRedirect.
C4_NoRedirectWithoutInteractionCode ==
    \A c \in Frames :
        ~(c.acq = "failed" /\ c.error \in InteractionCodes) => c.redirects = <<>>

\* C4 witness: two acquisitions were rejected, one with an unrecognized code
\* and one with the empty code, and no redirect was made
C4_Witness ==
    /\ \E c \in Frames : c.acq = "failed" /\ c.error = "error_not_found"
    /\ \E c \in Frames : c.acq = "failed" /\ c.error = ""
    /\ \A c \in Frames : c.redirects = <<>>

\* C5: in every reachable state at most one expiration timer is pending.
C5_AtMostOneTimer == Cardinality(timers) <= 1

\* C5 witness: with auto-refresh on, a second timer was set although no timer
\* ever fired, so the first one was pending when the second was set
C5_Witness ==
    /\ autoRefreshToken
    /\ nextTimerId = 3
    /\ timers # {}
    /\ \A c \in Frames : c.by # "timer"

\* C6: no timer is set before the first successful acquisition, and after a
\* successful acquireToken exactly one expiration timer is pending.
C6_SuccessLeavesOneTimer ==
    [][/\ (\A c \in Frames : c.acq # "ok") => timers = {}
       /\ \A i \in 1..MaxCalls :
             (SilentEnds(i) /\ calls'[i].acq = "ok") =>
                 Cardinality(timers') = 1]_vars

\* C6 in full, for the main version alone: after a successful acquireToken
\* exactly one timer is pending and it is a new one, the timer pending before
\* the call having been cancelled.
C6_MainSuccessLeavesOneFreshTimer ==
    [][/\ (\A c \in Frames : c.acq # "ok") => timers = {}
       /\ \A i \in 1..MaxCalls :
             (variant = "main" /\ SilentEnds(i) /\ calls'[i].acq = "ok") =>
                 /\ Cardinality(timers') = 1
                 /\ timers' \cap timers = {}]_vars

\* C6, the state the batch version reaches: auto-refresh is on, the timer has
\* fired, the acquisition it started has succeeded, and no timer is pending
C6_RenewalStopped ==
    /\ variant = "batch"
    /\ autoRefreshToken
    /\ timers = {}
    /\ \E c \in Frames : c.by = "timer" /\ c.acq = "ok" /\ c.token = accessToken
    /\ \A c \in Frames : c.pc = "done"

\* C7: a query whose token acquisition is outstanding has issued no transport
\* request; in the main version a request is issued only after the
\* acquisition has completed, with success or with failure.
C7_AcquisitionBeforeRequest ==
    \A c \in Frames :
        c.op = "query" =>
            /\ c.acq = "pending" => c.requests = <<>>
            /\ c.pc \in {"silent", "resume"} => c.requests = <<>>
            /\ (variant = "main" /\ c.requests # <<>>) => c.acq \in {"ok", "failed"}

\* C7 witness: in the main version, one query has sent its request after a
\* successful acquisition and another after a failed one
C7_Witness ==
    /\ variant = "main"
    /\ \E c \in Frames : c.op = "query" /\ c.acq = "ok" /\ c.pc = "transport"
    /\ \E c \in Frames : c.op = "query" /\ c.acq = "failed" /\ c.pc = "transport"

\* C8 as stated: a query whose silent acquisition did not fail and that
\* returned has performed exactly one silent acquisition and sent exactly one
\* request, carrying "Bearer T" for the token T acquired, and returns a
\* response of the transport.
C8_QueryAcquiresOnceAndSendsBearer ==
    \A c \in Frames :
        (c.op = "query" /\ c.outcome = "resolved" /\ c.acq # "failed") =>
            /\ Len(c.silentArgs) = 1
            /\ c.token \in Tokens
            /\ Len(c.requests) = 1
            /\ c.requests[1].headers.Authorization = "Bearer " \o c.token
            /\ c.response \in TransportResponses

\* C8 amended: in the main version the statement holds; in the batch version
\* query() performs no silent acquisition and sends exactly one request,
\* carrying "Bearer " and a token that was held (or the empty string), and
\* returns a response of the transport.
C8_QueryAcquiresOnceInMain ==
    \A c \in Frames :
        (c.op = "query" /\ c.outcome = "resolved" /\ c.acq # "failed") =>
            /\ Len(c.requests) = 1
            /\ c.response \in TransportResponses
            /\ IF variant = "main"
               THEN /\ Len(c.silentArgs) = 1
                    /\ c.acq = "ok"
                    /\ c.token \in Tokens
                    /\ c.requests[1].headers.Authorization = "Bearer " \o c.token
               ELSE /\ c.silentArgs = <<>>
                    /\ c.acq = "none"
                    /\ \E t \in Tokens \cup {""} :
                          c.requests[1].headers.Authorization = "Bearer " \o t

\* C8 witness: in the main version a query whose options carried their own
\* Authorization header returned after sending "Bearer t1"
C8_Witness ==
    \E c \in Frames :
        /\ variant = "main"
        /\ c.op = "query" /\ c.outcome = "resolved" /\ c.acq = "ok"
        /\ c.token = "t1"
        /\ "headers" \in DOMAIN c.options
        /\ c.options.headers.Authorization = "Bearer my-token"
        /\ c.requests[1].headers.Authorization = "Bearer t1"
        /\ c.response \in TransportResponses

\* frame i is a query that returns the transport's response in this step
QueryReturns(i) ==
    Live(i) /\ calls[i].pc = "transport" /\ calls'[i].outcome = "resolved"

\* C9 as stated: a successful query whose endpoint carries an id stores the
\* response body under that id and leaves the other entries unchanged; one
\* whose endpoint is a string or has no id leaves the cache unchanged.
C9_QueryStoresUnderId ==
    [][\A i \in 1..MaxCalls :
          QueryReturns(i) =>
              LET e == calls[i].endpoint IN
              IF "id" \in DOMAIN e
              THEN /\ DOMAIN dataQuery' = DOMAIN dataQuery \cup {e.id}
                   /\ dataQuery'[e.id] = calls'[i].response.data
                   /\ \A k \in DOMAIN dataQuery \ {e.id} : dataQuery'[k] = dataQuery[k]
              ELSE dataQuery' = dataQuery]_vars

\* C9 amended: the statement holds in the main version; in the batch version
\* query() leaves the result cache unchanged whatever the endpoint.
C9_QueryStoresUnderIdInMain ==
    [][\A i \in 1..MaxCalls :
          QueryReturns(i) =>
              LET e == calls[i].endpoint IN
              IF variant = "main" /\ "id" \in DOMAIN e
              THEN /\ DOMAIN dataQuery' = DOMAIN dataQuery \cup {e.id}
                   /\ dataQuery'[e.id] = calls'[i].response.data
                   /\ \A k \in DOMAIN dataQuery \ {e.id} : dataQuery'[k] = dataQuery[k]
              ELSE dataQuery' = dataQuery]_vars

\* C9, a second witness: in the main version two queries with different ids have
\* returned and the cache holds the body of each under its id
C9_WitnessOtherEntries ==
    /\ variant = "main"
    /\ Len(calls) = 2
    /\ \A i \in 1..2 : calls[i].op = "query" /\ calls[i].outcome = "resolved"
    /\ calls[1].endpoint = [url |-> UrlPath, id |-> "profile"]
    /\ calls[2].endpoint = [url |-> UrlAbsolute, id |-> "test"]
    /\ DOMAIN dataQuery = {"profile", "test"}
    /\ dataQuery["profile"] = calls[1].response.data
    /\ dataQuery["test"] = calls[2].response.data

\* C9 witness: in the main version two queries with the same id returned
\* different bodies and the cache holds the later one
C9_Witness ==
    /\ variant = "main"
    /\ Len(calls) = 2
    /\ \A i \in 1..2 : calls[i].op = "query" /\ calls[i].outcome = "resolved"
    /\ \A i \in 1..2 : calls[i].endpoint = [url |-> UrlPath, id |-> "profile"]
    /\ calls[1].response.data # calls[2].response.data
    /\ dataQuery["profile"] \in {calls[1].response.data, calls[2].response.data}

\* C10: a request handed to the transport carries the Authorization header
\* "Bearer " followed by the token held at that moment, whatever Authorization
\* header the caller's options carried, and carries every other header of the
\* caller's options unchanged and no further header.
C10_AuthorizationIsHeldToken ==
    [][\A i \in 1..MaxCalls :
          Len(RequestsIn(calls', i)) > Len(RequestsIn(calls, i)) =>
              LET c == calls'[i]
                  r == c.requests[Len(c.requests)]
                  given == IF "headers" \in DOMAIN c.options
                           THEN c.options.headers ELSE <<>>
              IN  /\ r.headers.Authorization = "Bearer " \o accessToken'
                  /\ DOMAIN r.headers = DOMAIN given \cup {"Authorization"}
                  /\ \A h \in DOMAIN given \ {"Authorization"} :
                        r.headers[h] = given[h]]_vars

\* C10 witness: a request was sent for options that carried an Authorization
\* header and another header; the first was replaced, the second kept
C10_Witness ==
    \E c \in Frames :
        /\ c.requests # <<>>
        /\ "headers" \in DOMAIN c.options
        /\ c.options.headers.Authorization = "Bearer my-token"
        /\ c.requests[1].headers.Authorization # "Bearer my-token"
        /\ c.requests[1].headers.Accept = "json"

\* the transport request of frame i fails in this step: the frame leaves the
\* await of axios.request without a response
TransportFails(i) ==
    /\ Live(i)
    /\ calls[i].pc = "transport"
    /\ calls'[i] # calls[i]
    /\ calls'[i].response \notin TransportResponses

\* how often err is in a log
TimesLogged(log, err) == Cardinality({k \in 1..Len(log) : log[k] = err})

\* C11 as stated: when the transport request rejects, the error is logged
\* exactly once, the query rejects with that same error, and the result cache
\* is unchanged.
C11_TransportFailureLoggedAndRethrown ==
    [][\A i \in 1..MaxCalls :
          TransportFails(i) =>
              /\ calls'[i].pc = "done"
              /\ calls'[i].outcome = "rejected"
              /\ calls'[i].thrown = TransportError
              /\ calls'[i].requests = calls[i].requests
              /\ TimesLogged(calls'[i].logged, TransportError) = 1
              /\ dataQuery' = dataQuery]_vars

\* C11 amended: the query rejects with the transport's error and the result
\* cache is unchanged in both versions; the error is logged exactly once in
\* the main version, and the batch version, which has no logger, logs nothing.
C11_TransportFailureRethrown ==
    [][\A i \in 1..MaxCalls :
          TransportFails(i) =>
              /\ calls'[i].pc = "done"
              /\ calls'[i].outcome = "rejected"
              /\ calls'[i].thrown = TransportError
              /\ calls'[i].requests = calls[i].requests
              /\ TimesLogged(calls'[i].logged, TransportError) =
                    (IF variant = "main" THEN 1 ELSE 0)
              /\ dataQuery' = dataQuery]_vars

\* C11 witness: in the main version a query with an id was rejected with the
\* transport's error after another query had filled the cache; the error is
\* in the log once and the cache holds no entry for the id
C11_Witness ==
    /\ variant = "main"
    /\ \E c \in Frames :
          /\ c.op = "query" /\ c.outcome = "rejected"
          /\ c.endpoint = [url |-> UrlPath, id |-> "profile"]
          /\ c.thrown = TransportError
          /\ TimesLogged(c.logged, TransportError) = 1
    /\ DOMAIN dataQuery = {"test"}

\* an invocation has called acquireTokenSilent at most once and has sent at
\* most one transport request, whatever the outcomes; a finished acquisition
\* has made exactly one call and a query whose transport request failed
\* exactly one request
C12_OneCallEach ==
    \A c \in Frames :
        /\ Len(c.silentArgs) <= 1
        /\ Len(c.requests) <= 1
        /\ c.acq \in {"ok", "failed"} => Len(c.silentArgs) = 1
        /\ c.pc = "transport" => Len(c.requests) = 1
        /\ c.thrown = TransportError => Len(c.requests) = 1 /\ c.pc = "done"

\* an invocation never calls acquireTokenSilent again, and a step starts at
\* most one invocation: a caller's, or the one of the expiration timer
C12_AcquisitionsStartWithAFrame ==
    /\ Len(calls') <= Len(calls) + 1
    /\ \A i \in 1..MaxCalls :
          Live(i) => calls'[i].silentArgs = calls[i].silentArgs
    /\ Len(calls') = Len(calls) + 1 =>
          /\ Len(calls'[Len(calls')].silentArgs) <= 1
          /\ calls'[Len(calls')].by \in {"caller", "timer"}
          /\ calls'[Len(calls')].by = "timer" <=>
                \E t \in timers : timers' = timers \ {t}

\* C12: no automatic retry exists: one acquireToken invocation calls silent
\* acquisition at most once whatever its outcome, one query invocation issues
\* at most one transport request, also when that request fails, and the only
\* acquisition nobody called for is the one the expiration timer starts.
C12_NoRetry ==
    []C12_OneCallEach /\ [][C12_AcquisitionsStartWithAFrame]_vars

\* C12 witness: one acquisition was rejected and one query's transport
\* request was rejected; each made one call
C12_Witness ==
    /\ \E c \in Frames :
          c.op = "acquireToken" /\ c.acq = "failed" /\ Len(c.silentArgs) = 1
    /\ \E c \in Frames :
          c.op = "query" /\ c.thrown = TransportError /\ Len(c.requests) = 1

\* this step is the operation op, recorded in lastOp
Did(op) == lastOp' # lastOp /\ lastOp'.op = op

\* how often an operation made the call
Count(events, call) == Cardinality({k \in 1..Len(events) : events[k].call = call})

\* where in an operation the call was made first; 0 when it was not made
IndexOf(events, call) ==
    IF Count(events, call) = 0 THEN 0
    ELSE CHOOSE k \in 1..Len(events) :
            /\ events[k].call = call
            /\ \A j \in 1..(k - 1) : events[j].call # call

\* C13: isAuthenticated() returns false whenever the identity client takes the
\* current URL fragment for an authentication callback, whatever the account,
\* and then it does not call getAccount.
C13_CallbackShortCircuits ==
    [][Did("isAuthenticated") /\ isCallback =>
          /\ lastOp'.returned = <<FALSE>>
          /\ Count(lastOp'.events, "getAccount") = 0
          /\ Count(lastOp'.events, "isCallback") = 1]_vars

\* C13 witness: isAuthenticated() has answered false on a callback location
\* while the identity client holds an account, without looking the account up
C13_Witness ==
    /\ lastOp.op = "isAuthenticated"
    /\ isCallback /\ account = UserAccount
    /\ lastOp.returned = <<FALSE>>
    /\ lastOp.events = <<Ev("isCallback", <<>>)>>

\* C14 as stated: every call of isAuthenticated() returns true if and only if
\* the location is no callback and the account record is not empty; an empty
\* object counts as empty.
C14_AuthenticatedIffNonEmptyAccount ==
    [][Did("isAuthenticated") =>
          lastOp'.returned =
              <<~isCallback /\ account.type # "null" /\ DOMAIN account.fields # {}>>]_vars

\* C14 in the main version, where it holds
C14_MainAuthenticatedIffNonEmptyAccount ==
    [][Did("isAuthenticated") /\ variant = "main" =>
          lastOp'.returned =
              <<~isCallback /\ account.type # "null" /\ DOMAIN account.fields # {}>>]_vars

\* C14, the state the batch version reaches: isAuthenticated() has answered
\* true for an account record that is an empty object
C14_EmptyAccountAuthenticated ==
    /\ variant = "batch"
    /\ lastOp.op = "isAuthenticated"
    /\ ~isCallback /\ account = EmptyAccount
    /\ lastOp.returned = <<TRUE>>

\* C15: login() calls nothing but isAuthenticated() when that answers true;
\* otherwise it calls loginRedirect exactly once, with the configured request
\* parameters.
C15_LoginRedirectsUnlessAuthenticated ==
    [][Did("login") =>
          /\ ~lastOp'.threw
          /\ IF isAuthenticated
             THEN /\ Count(lastOp'.events, "loginRedirect") = 0
                  /\ lastOp'.events = isAuthenticatedCalls
             ELSE /\ Count(lastOp'.events, "loginRedirect") = 1
                  /\ lastOp'.events[Len(lastOp'.events)] =
                        Ev("loginRedirect", <<queryParameters>>)]_vars

\* C15 witness: a session configured with other request parameters than the
\* default has redirected to the login with them
C15_Witness ==
    /\ lastOp.op = "login"
    /\ queryParameters = OtherParameters
    /\ lastOp.events[Len(lastOp.events)] = Ev("loginRedirect", <<OtherParameters>>)

\* C15 witness of the other case: login() while authenticated called no
\* loginRedirect
C15_WitnessNoOp ==
    /\ lastOp.op = "login"
    /\ isAuthenticated
    /\ Count(lastOp.events, "loginRedirect") = 0

\* C16: logout() calls nothing but isAuthenticated() when that answers false;
\* otherwise it calls the identity client's logout exactly once, without
\* arguments.
C16_LogoutOnlyWhenAuthenticated ==
    [][Did("logout") =>
          /\ ~lastOp'.threw
          /\ IF isAuthenticated
             THEN /\ Count(lastOp'.events, "logout") = 1
                  /\ lastOp'.events[Len(lastOp'.events)] = Ev("logout", <<>>)
             ELSE /\ Count(lastOp'.events, "logout") = 0
                  /\ lastOp'.events = isAuthenticatedCalls]_vars

\* C16 witness: logout() on a callback location, with an account held, did
\* not call the identity client's logout
C16_Witness ==
    /\ lastOp.op = "logout"
    /\ isCallback /\ account = UserAccount
    /\ Count(lastOp.events, "logout") = 0

\* C16 witness of the other case: logout() while authenticated called logout
C16_WitnessLogout ==
    /\ lastOp.op = "logout"
    /\ isAuthenticated
    /\ lastOp.events[Len(lastOp.events)] = Ev("logout", <<>>)

\* C17: the constructor, given an absent, null or empty auth.clientId, throws
\* before the identity client is constructed: nothing is called, no
\* acquisition is started and nothing is stored.
C17_NoClientIdFailsFirst ==
    [][Did("new MSAL") /\ lastOp'.args[1].clientId \in {"", Null, Undefined} =>
          /\ lastOp'.threw
          /\ lastOp'.events = <<>>
          /\ phase' = "failed"
          /\ calls' = calls
          /\ UNCHANGED <<dataIsAuthenticated, dataUser, accessToken, timers>>]_vars

\* C17 witness: the constructor has thrown for an empty clientId although the
\* configuration asked for the login at initialisation and the user is
\* authenticated
C17_Witness ==
    /\ phase = "failed"
    /\ lastOp.op = "new MSAL" /\ lastOp.threw
    /\ lastOp.args[1].clientId = ""
    /\ lastOp.args[1].requireAuthOnInitialize
    /\ isAuthenticated
    /\ calls = <<>>

\* C18: the constructor calls login() once when auth.requireAuthOnInitialize
\* is true and never when it is false; the call comes after the identity
\* client is constructed and before the authentication state is stored.
C18_LoginDuringConstruction ==
    [][Did("new MSAL") /\ ~lastOp'.threw =>
          LET events == lastOp'.events
              require == lastOp'.args[1].requireAuthOnInitialize
          IN  /\ Count(events, "login") = (IF require THEN 1 ELSE 0)
              /\ Count(events, "new UserAgentApplicationExtended") = 1
              /\ Count(events, "data.isAuthenticated=") = 1
              /\ require =>
                    /\ IndexOf(events, "new UserAgentApplicationExtended")
                          < IndexOf(events, "login")
                    /\ IndexOf(events, "login")
                          < IndexOf(events, "data.isAuthenticated=")
              /\ ~require => Count(events, "loginRedirect") = 0]_vars

\* C18 witness: a constructor asked to require authentication has called
\* login(), which redirected, between the construction of the identity client
\* and the storing of the authentication state
C18_Witness ==
    /\ lastOp.op = "new MSAL" /\ ~lastOp.threw
    /\ lastOp.args[1].requireAuthOnInitialize
    /\ Count(lastOp.events, "loginRedirect") = 1
    /\ lastOp.events[2] = Ev("login", <<>>)

\* C19: the constructor stores in data.isAuthenticated what isAuthenticated()
\* answers at that time, and stores the account record in data.user if and
\* only if that answer is true; data.user stays absent otherwise.
C19_DataAfterConstruction ==
    [][Did("new MSAL") /\ ~lastOp'.threw =>
          /\ dataIsAuthenticated' = isAuthenticated
          /\ dataIsAuthenticated' => dataUser' = account
          /\ ~dataIsAuthenticated' => dataUser' = NoUser]_vars

\* C19 witness: constructed on a callback location with an account held, the
\* session is not authenticated and data.user is absent
C19_Witness ==
    /\ phase = "ready" /\ lastOp.op = "new MSAL"
    /\ isCallback /\ account = UserAccount
    /\ ~dataIsAuthenticated /\ dataUser = NoUser

\* C19 witness of the other case: constructed while authenticated, the
\* session holds the account record
C19_WitnessAuthenticated ==
    /\ phase = "ready" /\ lastOp.op = "new MSAL"
    /\ dataIsAuthenticated /\ dataUser = UserAccount

\* the acquisitions the constructor started
InitFrames == {i \in 1..Len(calls) : calls[i].by = "init"}

\* the constructor of the batch version starts one acquisition when the
\* session is authenticated and none otherwise, and never the batch itself
C20_ConstructorStartsOneAcquisition ==
    Did("new MSAL") /\ ~lastOp'.threw /\ variant = "batch" =>
        /\ batch' = NoBatch
        /\ IF dataIsAuthenticated'
           THEN /\ Len(calls') = Len(calls) + 1
                /\ calls'[Len(calls')].op = "acquireToken"
                /\ calls'[Len(calls')].by = "init"
                /\ Len(calls'[Len(calls')].silentArgs) = 1
                /\ calls'[Len(calls')].outcome = "pending"
           ELSE calls' = calls

\* the batch starts only in a step in which the constructor's acquisition has
\* resolved and the flag is set
C20_BatchStartsAfterAcquisition ==
    batch.state = "none" /\ batch'.state # "none" =>
        /\ callAfterInit
        /\ \E i \in InitFrames :
              /\ calls[i].acq \in {"ok", "failed"}
              /\ calls[i].outcome = "resolved"
              /\ calls'[i].pc = "done"

\* a session constructed unauthenticated, or without the flag, has no batch,
\* and no session has more than one acquisition of the constructor
C20_NoBatchOtherwise ==
    /\ Cardinality(InitFrames) <= 1
    /\ phase = "ready" /\ ~dataIsAuthenticated =>
          InitFrames = {} /\ batch = NoBatch /\ BatchFrames = {}
    /\ ~callAfterInit => batch = NoBatch /\ BatchFrames = {}
    /\ variant = "main" => InitFrames = {} /\ batch = NoBatch

\* C20: in the batch version the constructor of an authenticated session
\* starts exactly one token acquisition, and the endpoint batch runs only
\* after that acquisition has resolved and only with callAfterInit; an
\* unauthenticated session starts neither.
C20_InitAcquisitionThenBatch ==
    /\ []C20_NoBatchOtherwise
    /\ [][C20_ConstructorStartsOneAcquisition]_vars
    /\ [][C20_BatchStartsAfterAcquisition]_vars

\* C20 witness: the constructor's acquisition has resolved with a token and
\* the batch has sent its request with it
C20_Witness ==
    /\ variant = "batch" /\ callAfterInit
    /\ batch.state = "pending"
    /\ \E i \in InitFrames : calls[i].acq = "ok" /\ calls[i].pc = "done"
    /\ \E i \in BatchFrames :
          /\ calls[i].pc = "transport"
          /\ calls[i].requests[1].headers.Authorization = Bearer(accessToken)

\* C20 witness of the other case: without callAfterInit the acquisition has
\* resolved and no batch runs
C20_WitnessNoBatch ==
    /\ variant = "batch" /\ ~callAfterInit
    /\ \E i \in InitFrames : calls[i].acq = "ok" /\ calls[i].pc = "done"
    /\ batch = NoBatch

\* C25: requiresInteraction(code) never throws, answers true exactly for
\* consent_required, interaction_required and login_required, and false for
\* the empty string, null, undefined and every other string.
C25_RequiresInteractionTotal ==
    applied.fn = "requiresInteraction" =>
        /\ ~applied.threw
        /\ applied.value \in BOOLEAN
        /\ applied.value <=>
              applied.code \in {"consent_required", "interaction_required",
                                "login_required"}

\* C25 witness: requiresInteraction(null) has answered false
C25_Witness ==
    /\ applied.fn = "requiresInteraction"
    /\ applied.code = Null
    /\ applied.value = FALSE /\ ~applied.threw

\* the url begins with the four characters of "http"
StartsWithHttp(url) ==
    /\ Len(url) >= 4
    /\ url[1] = "h" /\ url[2] = "t" /\ url[3] = "t" /\ url[4] = "p"

\* C27: the url of the request handed to the transport is the base URL
\* followed by the endpoint url when the endpoint url does not start with
\* "http" and a base URL is configured, and the endpoint url otherwise; the
\* engine sends this very request.
C27_UrlResolution ==
    applied.fn = "executeQuery" /\ ~applied.threw =>
        LET u == EndpointUrl(applied.endpoint)
        IN  /\ applied.value[1].url =
                  (IF ~StartsWithHttp(u) /\ baseUrl # <<>>
                   THEN baseUrl[1] \o u
                   ELSE u)
            /\ applied.value[1] =
                  executeQuery(applied.endpoint, applied.options, accessToken)

\* C27 witness: a path that holds "http" after its first character has been
\* resolved against the base URL
C27_Witness ==
    /\ applied.fn = "executeQuery" /\ ~applied.threw
    /\ baseUrl = <<BaseUrl>>
    /\ EndpointUrl(applied.endpoint) = UrlPathWithHttp
    /\ applied.value[1].url = BaseUrl \o UrlPathWithHttp

\* C27 witness of the other cases: without a base URL a path is sent as it is
C27_WitnessNoBaseUrl ==
    /\ applied.fn = "executeQuery" /\ ~applied.threw
    /\ baseUrl = <<>>
    /\ applied.endpoint = [str |-> UrlPath]
    /\ applied.value[1].url = UrlPath

\* C28: createQuery throws for the empty string and for a descriptor with an
\* empty url; otherwise the string u and the descriptor {url: u} give equal
\* requests, made of the option fields and url, and of an id only in the
\* batch version: the one supplied, or "defaultID-0".
C28_RequestBuilding ==
    applied.fn = "createQuery" =>
        /\ applied.threw <=> EndpointUrl(applied.endpoint) = <<>>
        /\ ~applied.threw =>
              LET q == applied.value[1]
                  options == applied.options
              IN  /\ q.url = EndpointUrl(applied.endpoint)
                  /\ DOMAIN q = DOMAIN options \cup {"url"}
                                \cup (IF variant = "batch" THEN {"id"} ELSE {})
                  /\ \A f \in DOMAIN options \ {"url", "id"} : q[f] = options[f]
                  /\ "id" \in DOMAIN q =>
                        q.id = (IF HasId(applied.endpoint)
                                THEN applied.endpoint.id ELSE "defaultID-0")
                  /\ q = createQuery(applied.endpoint, options)
                  /\ IsString(applied.endpoint) =>
                        q = createQuery([url |-> applied.endpoint.str], options)

\* C28 witness: a descriptor with an id and a caller's options gave, in the
\* main version, a request of the option fields and url, without the id
C28_Witness ==
    /\ applied.fn = "createQuery" /\ ~applied.threw
    /\ variant = "main"
    /\ applied.endpoint = [url |-> UrlPath, id |-> "profile"]
    /\ applied.options = CallerOptions
    /\ DOMAIN applied.value[1] = {"url", "method", "headers"}

\* C28 witness of the failure: createQuery has thrown for {url: ""}
C28_WitnessThrows ==
    /\ applied.fn = "createQuery" /\ applied.threw
    /\ applied.endpoint = [url |-> UrlEmpty]

\* C29: createQuery and executeQuery leave every object of the caller as it
\* was: the endpoint descriptor, the options and the headers, a caller's
\* Authorization included; what they write goes into objects of their own.
C29_CallerObjectsUnchanged ==
    applied.fn \in {"createQuery", "executeQuery"} =>
        /\ Len(applied.after) >= Len(applied.before)
        /\ \A r \in 1..Len(applied.before) : applied.after[r] = applied.before[r]
        /\ applied.before = CallerHeap(applied.endpoint, applied.options)

\* C29 witness: executeQuery has sent the held token's Authorization while
\* the caller's headers object still holds the caller's own
C29_Witness ==
    /\ applied.fn = "executeQuery" /\ ~applied.threw
    /\ applied.endpoint = [url |-> UrlPath, id |-> "profile"]
    /\ applied.options = CallerOptions
    /\ accessToken = "t1"
    /\ applied.value[1].headers.Authorization = "Bearer t1"
    /\ applied.after[2] = CallerHeaders
    /\ applied.after[2].Authorization = "Bearer my-token"

\* the timeout t runs in this step
Fires(t) == t \in timers /\ timers' = timers \ {t}

\* C26: when the expiration timer fires with auto-refresh, acquireToken is
\* invoked once with the scopes recorded when the timer was set and the held
\* token stays; without auto-refresh nothing is invoked and the held token
\* becomes the empty string.
C26_TimerFiring ==
    [][\A t \in timers :
          Fires(t) =>
              /\ dataQuery' = dataQuery
              /\ IF autoRefreshToken
                 THEN /\ accessToken' = accessToken
                      /\ Len(calls') = Len(calls) + 1
                      /\ SubSeq(calls', 1, Len(calls)) = calls
                      /\ LET c == calls'[Len(calls')]
                         IN  /\ c.op = "acquireToken" /\ c.by = "timer"
                             /\ c.pc = "silent"
                             /\ c.silentArgs = <<[scopes |-> t.scopes]>>
                 ELSE /\ calls' = calls
                      /\ accessToken' = ""]_vars

\* C26 witness: the timer set for a token with the scopes user.read has
\* fired with auto-refresh; the token is held and the acquisition runs with
\* those scopes
C26_Witness ==
    /\ autoRefreshToken
    /\ timers = {}
    /\ accessToken \in Tokens
    /\ \E c \in Frames :
          /\ c.by = "timer" /\ c.pc = "silent"
          /\ c.silentArgs = <<[scopes |-> <<"user.read">>]>>

\* C26 witness of the other case: without auto-refresh the timer has fired
\* after a direct acquisition and the held token is empty
C26_WitnessCleared ==
    /\ ~autoRefreshToken
    /\ timers = {}
    /\ accessToken = ""
    /\ \A c \in Frames : c.op = "acquireToken" /\ c.by # "timer"
    /\ \E c \in Frames : c.acq = "ok"

\* C23: the facade's login, logout, isAuthenticated and query make the calls
\* and give the results of the session's operations with the same arguments;
\* a query through the facade with explicit scopes acquires its token for
\* those scopes.
C23_FacadeEquivalent ==
    [][/\ Did("login") => lastOp'.events = loginCalls
       /\ Did("logout") => lastOp'.events = logoutCalls
       /\ Did("isAuthenticated") =>
              /\ lastOp'.returned = <<isAuthenticated>>
              /\ lastOp'.events = isAuthenticatedCalls
       /\ Did("query") =>
              LET c == calls'[Len(calls')]
                  a == lastOp'.args
              IN  /\ Len(calls') = Len(calls) + 1
                  /\ c.endpoint = a[1]
                  /\ c.options = OptionsOf(a[2])
                  /\ variant = "main" => c.silentArgs = <<ParametersOf(a[3])>>]_vars

\* C23, the diverging state: the host has queried through the main version's
\* facade with the scopes mail.read and the acquisition runs with the
\* default scopes
C23_ScopesDropped ==
    /\ variant = "main"
    /\ lastOp.op = "query"
    /\ lastOp.args[3] = <<OtherParameters>>
    /\ Len(calls) = 1
    /\ calls[1].pc = "silent"
    /\ calls[1].silentArgs = <<DefaultParameters>>

\* a login or logout runs in this step
LoginOrLogout == Did("login") \/ Did("logout")

\* the frame without the note of what ran meanwhile
Progress(c) == [c EXCEPT !.during = {}]

\* C24: a login or logout issued while a query's acquisition or request is
\* outstanding leaves the query as it is; when the acquisition then resolves
\* the query goes on, and when the response arrives the query resolves with
\* it and (main version, the version of MSAL.query the statement is about)
\* the body is in the result cache under the endpoint's id.
C24_LoginLogoutDoNotAbort ==
    [][/\ LoginOrLogout =>
              /\ Len(calls') = Len(calls)
              /\ \A i \in 1..Len(calls) : Progress(calls'[i]) = Progress(calls[i])
              /\ dataQuery' = dataQuery
              /\ accessToken' = accessToken
              /\ timers' = timers
       /\ \A i \in 1..Len(calls) :
              (calls[i].op = "query" /\ calls[i].during # {}) =>
                  /\ (calls[i].pc = "silent" /\ calls'[i].acq = "ok") =>
                         calls'[i].pc = "resume"
                  /\ (calls[i].pc = "transport"
                        /\ calls'[i].response \in TransportResponses) =>
                         /\ calls'[i].pc = "done"
                         /\ calls'[i].outcome = "resolved"
                         /\ (variant = "main" /\ HasId(calls[i].endpoint)) =>
                                /\ calls[i].endpoint.id \in DOMAIN dataQuery'
                                /\ dataQuery'[calls[i].endpoint.id]
                                      = calls'[i].response.data]_vars

\* C24 witness: in the main version a query with the id "profile" saw a logout
\* during its acquisition and a login during its request, has resolved, and
\* the cache holds the response's body under "profile"
C24_Witness ==
    /\ variant = "main"
    /\ Len(calls) = 1
    /\ calls[1].op = "query"
    /\ calls[1].during = {"login", "logout"}
    /\ calls[1].outcome = "resolved"
    /\ calls[1].response \in TransportResponses
    /\ calls[1].endpoint = [url |-> UrlPath, id |-> "profile"]
    /\ "profile" \in DOMAIN dataQuery
    /\ dataQuery["profile"] = calls[1].response.data

\* the key the statement names for a token: "msal.query-<access token>"
KeyOfToken(token) == "msal.query-" \o token

\* the entry of the durable cache under a key, empty when there is none
EntryAt(key) == IF key \in DOMAIN store THEN store[key] ELSE <<>>

\* initialQuery() begins in this step, and its Promise.all resolves in it
BatchStarts == batch.state = "none" /\ batch'.state = "pending"
BatchResolves == batch.state = "pending" /\ batch'.state = "resolved"

\* the ids of the requests the batch has made
BatchIds(cs) == {cs[i].endpoint.id : i \in {j \in 1..Len(cs) : cs[j].by = "batch"}}

\* C21: the batch skips the ids present in the entry under the key of the
\* current token, requests each remaining id once, and persists the union of
\* the cached and the new results under the key it read from, whatever
\* happens to the token meanwhile; the result cache is that union.
C21_BatchUnionUnderSameKey ==
    [][/\ BatchStarts =>
              LET cached == EntryAt(KeyOfToken(accessToken))
              IN  /\ batch'.key = KeyOfToken(accessToken)
                  /\ batch'.results = cached
                  /\ BatchIds(calls') =
                        {endpoints[1][k].id : k \in 1..Len(endpoints[1])}
                           \ DOMAIN cached
                  /\ Len(calls') = Len(calls) + Cardinality(BatchIds(calls'))
       /\ BatchResolves =>
              LET union == Responses(BatchFrames) @@ batch.results
              IN  /\ dataQuery' = union
                  /\ batch.key \in DOMAIN store'
                  /\ store'[batch.key] = union
                  /\ \A k \in DOMAIN store' \ {batch.key} :
                         k \in DOMAIN store /\ store'[k] = store[k]]_vars

\* C21, the diverging state: the batch read under the key of t1, the token
\* was refreshed to t2 while the request was pending, and the union is
\* persisted under the key of t2 only
C21_PersistedUnderOtherKey ==
    /\ batch.state = "resolved"
    /\ batch.key = "msal.query-t1"
    /\ accessToken = "t2"
    /\ autoRefreshToken
    /\ "msal.query-t1" \notin DOMAIN store
    /\ "msal.query-t2" \in DOMAIN store
    /\ store["msal.query-t2"] = dataQuery

\* C22: a construction that requests the batch while the endpoint map is
\* empty or absent raises a configuration error.
C22_BatchWithoutEndpointsThrows ==
    [][Did("new MSAL") =>
          LET cfg == lastOp'.args[1]
          IN  (cfg.callAfterInit /\ EndpointsAfter(cfg) \in {<<>>, <<NoEndpoints>>})
                  => lastOp'.threw]_vars

\* C22, the diverging states: the batch was requested with endpoints
\* undefined and initialQuery() returned without a request or an error; it
\* was requested with the empty map and resolved with an empty result
C22_SilentlySkipped ==
    /\ phase = "ready"
    /\ callAfterInit
    /\ endpoints = <<>>
    /\ batch.state = "skipped"
    /\ BatchFrames = {}
    /\ dataQuery = <<>>

C22_EmptyBatchResolved ==
    /\ phase = "ready"
    /\ callAfterInit
    /\ endpoints = <<NoEndpoints>>
    /\ batch.state = "resolved"
    /\ BatchFrames = {}
    /\ accessToken = "t2"
    /\ store = ("msal.query-t2" :> <<>>)

\* the payloads of a map of results
Payloads(results) == {results[id] : id \in DOMAIN results}

\* C30: a batch that runs while the held token is another one than t1 never
\* reads, skips on or merges the result b0 that was persisted while t1 was
\* held, and the result cache after it does not hold b0.
C30_ScopedPerToken ==
    \A token \in Tokens \ {"t1"} :
        (batch.state \in {"pending", "resolved"} /\ batch.key = KeyOfToken(token)) =>
            /\ "b0" \notin Payloads(batch.results)
            /\ batch.state = "resolved" => "b0" \notin Payloads(dataQuery)

\* C30, the diverging state: an earlier page's batch persisted b0 under the
\* key of t2 (C21); the batch of this page runs while t2 is held, skips the
\* id and has b0 in the result cache
C30_OtherTokensResult ==
    /\ EarlierStore["msal.query-t1"]["profile"] = "b0"
    /\ batch.state = "resolved"
    /\ batch.key = "msal.query-t2"
    /\ accessToken = "t2"
    /\ BatchFrames = {}
    /\ "profile" \in DOMAIN dataQuery
    /\ dataQuery["profile"] = "b0"

\* milliseconds in a second
MsPerSecond == 1000

\* C31: the delay of the expiration timer is expiresOn minus the current time
\* minus the renewal offset, all in one unit (milliseconds), the offset being
\* 0 when absent: the timer fires the renewal offset before the expiry.
C31_TimerDelay ==
    applied.fn = "expiration" =>
        LET offsetMs == IF applied.offset = <<>> THEN 0
                        ELSE applied.offset[1] * MsPerSecond
        IN  /\ applied.value = applied.expiresOn - applied.now - offsetMs
            /\ applied.now + applied.value = applied.expiresOn - offsetMs

\* C31, the diverging state: the token expires in an hour, the renewal offset
\* is 300 seconds, and the timeout is set 300 milliseconds before the expiry
C31_OffsetInMilliseconds ==
    /\ applied.fn = "expiration"
    /\ applied.offset = <<300>>
    /\ applied.now = 0
    /\ applied.expiresOn = 3600000
    /\ applied.value = 3599700

\* the frame of the batch's request for an id
FrameOf(id) == CHOOSE i \in BatchFrames : calls[i].endpoint.id = id

\* C32: the batch's requests are all handed to the transport in the step
\* that starts the batch, before any response is awaited, their ids pairwise
\* distinct; when all have resolved, the result cache holds for every id the
\* response to that id's request, whatever the order of the responses, the
\* cached entries for the other ids, and the same map is persisted.
C32_BatchOrderIndependent ==
    [][/\ BatchStarts =>
              /\ \A i \in (Len(calls) + 1)..Len(calls') :
                     /\ calls'[i].by = "batch"
                     /\ calls'[i].pc = "transport"
                     /\ Len(calls'[i].requests) = 1
                     /\ calls'[i].response = NoResponse
              /\ Cardinality(BatchIds(calls')) = Len(calls') - Len(calls)
       /\ BatchResolves =>
              /\ DOMAIN dataQuery' = BatchIds(calls) \cup DOMAIN batch.results
              /\ \A id \in BatchIds(calls) :
                     dataQuery'[id] = calls[FrameOf(id)].response.data
              /\ \A id \in DOMAIN batch.results \ BatchIds(calls) :
                     dataQuery'[id] = batch.results[id]
              /\ \E k \in DOMAIN store' :
                     /\ store'[k] = dataQuery'
                     /\ \A o \in DOMAIN store' \ {k} :
                            o \in DOMAIN store /\ store'[o] = store[o]]_vars

\* C32 witness: the batch of two endpoints has resolved with different
\* bodies and the cache and the persisted map hold each under its id
C32_Witness ==
    /\ batch.state = "resolved"
    /\ Cardinality(BatchFrames) = 2
    /\ BatchIds(calls) = {"profile", "photo"}
    /\ calls[FrameOf("profile")].response.data = "b1"
    /\ calls[FrameOf("photo")].response.data = "b2"
    /\ dataQuery = [profile |-> "b1", photo |-> "b2"]
    /\ \E k \in DOMAIN store : store[k] = dataQuery

\* C32, the order of arrival: the response to the request sent last has
\* arrived while the request sent first is pending
C32_WitnessLaterFirst ==
    /\ batch.state = "pending"
    /\ Cardinality(BatchFrames) = 2
    /\ FrameOf("profile") < FrameOf("photo")
    /\ calls[FrameOf("profile")].pc = "transport"
    /\ calls[FrameOf("photo")].outcome = "resolved"

\* C33: in every reachable state every pending expiration timer was set for
\* the token that is held.
C33_TimerForHeldToken == \A t \in timers : t.token = accessToken

\* C33, the diverging states: in the main version a query whose acquisition
\* was rejected has emptied the held token while the timer set for t1 is
\* pending; a query has stored the token t1 its acquisition returned while
\* the timer set for t2 by a later acquisition is pending
C33_EmptiedWithTimerPending ==
    /\ variant = "main"
    /\ accessToken = ""
    /\ \E t \in timers : t.token = "t1" /\ t.id = tokenExpirationTimer
    /\ \E c \in Frames : c.op = "query" /\ c.acq = "failed" /\ c.pc # "resume"

C33_HeldTokenOfEarlierAcquisition ==
    /\ variant = "main"
    /\ accessToken = "t1"
    /\ \E t \in timers : t.token = "t2" /\ t.id = tokenExpirationTimer

\* C34: with auto-refresh, when the acquisition the timer callback started
\* succeeds, an expiration timer is pending again, also when the token
\* acquired is the token held.
C34_RenewalChainContinues ==
    [][\A i \in 1..MaxCalls :
          (/\ autoRefreshToken
           /\ SilentEnds(i)
           /\ calls[i].by = "timer"
           /\ calls'[i].acq = "ok") => timers' # {}]_vars

\* C34, the diverging state: in the batch version the timer has fired, the
\* acquisition it started has returned the token already held, and no timer
\* is pending
C34_ChainStopped ==
    /\ variant = "batch"
    /\ autoRefreshToken
    /\ accessToken = "t1"
    /\ timers = {}
    /\ \E c \in Frames :
          c.by = "timer" /\ c.acq = "ok" /\ c.token = "t1" /\ c.pc = "done"
    /\ \A c \in Frames : c.pc = "done"

\* frame i is a query that hands a request to the transport in this step
Sends(i) ==
    /\ i \in 1..Len(calls')
    /\ calls'[i].op = "query"
    /\ Len(RequestsIn(calls', i)) > Len(RequestsIn(calls, i))

\* the Authorization header of the request frame i has sent last
SentAuthorization(i) ==
    calls'[i].requests[Len(calls'[i].requests)].headers.Authorization

\* C35 as stated: every request of a query carries the token that the
\* query's own acquisition returned.
C35_RequestCarriesOwnToken ==
    [][\A i \in 1..MaxCalls :
          Sends(i) =>
              /\ calls'[i].acq \in {"ok", "failed"}
              /\ SentAuthorization(i) = Bearer(calls'[i].token)]_vars

\* C35 amended: in the main version every request of a query carries the
\* token its own acquisition returned, whatever other acquisitions stored
\* meanwhile; in the batch version a query acquires nothing and its request
\* carries the token held when query() is called.
C35_RequestCarriesOwnTokenInMain ==
    [][\A i \in 1..MaxCalls :
          Sends(i) =>
              IF variant = "main"
              THEN /\ calls'[i].acq \in {"ok", "failed"}
                   /\ SentAuthorization(i) = Bearer(calls'[i].token)
              ELSE /\ calls'[i].acq = "none"
                   /\ i = Len(calls) + 1
                   /\ SentAuthorization(i) = Bearer(accessToken)]_vars

\* C35 witness: in the main version two queries with different scopes were
\* in flight together and each request carries the token of its own
\* acquisition
C35_Witness ==
    /\ variant = "main"
    /\ Len(calls) = 2
    /\ calls[1].op = "query" /\ calls[2].op = "query"
    /\ calls[1].silentArgs = <<DefaultParameters>>
    /\ calls[2].silentArgs = <<OtherParameters>>
    /\ calls[1].token = "t1" /\ calls[2].token = "t2"
    /\ calls[1].requests # <<>> /\ calls[2].requests # <<>>
    /\ calls[1].requests[1].headers.Authorization = "Bearer t1"
    /\ calls[2].requests[1].headers.Authorization = "Bearer t2"

\* C35, the refresh: in the main version the timer's acquisition has stored
\* t2 while a query that acquired t1 is in flight with "Bearer t1"
C35_WitnessRefresh ==
    /\ variant = "main"
    /\ accessToken = "t2"
    /\ \E c \in Frames : c.by = "timer" /\ c.acq = "ok" /\ c.token = "t2"
    /\ \E c \in Frames :
          /\ c.op = "query" /\ c.pc = "transport" /\ c.token = "t1"
          /\ c.requests[1].headers.Authorization = "Bearer t1"

\* C36: when the acquisition inside query() fails (main version; the
\* endpoint's url not empty), query() hands exactly one request to the
\* transport, the request carries "Bearer ", and the held token is the empty
\* string once query() has gone on, whatever was held before.
C36_FailedAcquisitionStillQueries ==
    /\ [](\A c \in Frames :
             (/\ c.op = "query"
              /\ c.acq = "failed"
              /\ c.pc \notin {"silent", "resume"}
              /\ ~createQueryThrows(c.endpoint)) =>
                 /\ Len(c.requests) = 1
                 /\ c.requests[1].headers.Authorization = "Bearer ")
    /\ [][\A i \in 1..MaxCalls :
             (/\ Live(i)
              /\ calls[i].op = "query"
              /\ calls[i].acq = "failed"
              /\ calls[i].pc = "resume"
              /\ calls'[i].pc # "resume") => accessToken' = ""]_vars

\* C36 witness: t1 was held and its timer is pending; a query's acquisition
\* was rejected, its one request carries "Bearer " and nothing is held
C36_Witness ==
    /\ variant = "main"
    /\ accessToken = ""
    /\ \E t \in timers : t.token = "t1"
    /\ \E c \in Frames :
          /\ c.op = "query" /\ c.acq = "failed" /\ c.pc = "transport"
          /\ Len(c.requests) = 1
          /\ c.requests[1].headers.Authorization = "Bearer "

\* C37: a direct acquireToken call whose silent acquisition is rejected
\* changes neither the held token nor the pending timer nor the result
\* cache, at the call and at the rejection.
C37_RejectedAcquisitionChangesNothing ==
    [][/\ \A i \in 1..MaxCalls :
             (/\ SilentEnds(i)
              /\ calls[i].op = "acquireToken"
              /\ calls'[i].acq = "failed") =>
                 /\ accessToken' = accessToken
                 /\ timers' = timers
                 /\ tokenExpirationTimer' = tokenExpirationTimer
                 /\ dataQuery' = dataQuery
                 /\ calls'[i].token = ""
       /\ (/\ Len(calls') = Len(calls) + 1
           /\ calls'[Len(calls')].op = "acquireToken"
           /\ calls'[Len(calls')].by = "caller") =>
                 /\ accessToken' = accessToken
                 /\ timers' = timers
                 /\ tokenExpirationTimer' = tokenExpirationTimer
                 /\ dataQuery' = dataQuery]_vars

\* C37 witness: t1 is held with its timer pending and a direct acquireToken
\* call has been rejected
C37_Witness ==
    /\ accessToken = "t1"
    /\ \E t \in timers : t.token = "t1" /\ t.id = tokenExpirationTimer
    /\ Len(calls) = 2
    /\ calls[1].acq = "ok"
    /\ calls[2].op = "acquireToken" /\ calls[2].by = "caller"
    /\ calls[2].acq = "failed" /\ calls[2].pc = "done"
    /\ calls[2].token = ""

\* C38: once the session is constructed no step changes data.isAuthenticated
\* or data.user, whatever isAuthenticated() would answer now; the result
\* cache changes only when a query() returns or the batch resolves.
C38_SessionDataFrozen ==
    [][phase = "ready" =>
          /\ dataIsAuthenticated' = dataIsAuthenticated
          /\ dataUser' = dataUser
          /\ dataQuery' # dataQuery =>
                \/ \E i \in 1..MaxCalls : QueryReturns(i) /\ calls[i].op = "query"
                \/ BatchResolves]_vars

\* C38 witness: the account is gone, logout() has run while a query was
\* outstanding and found nobody signed in, the query has stored its
\* response, and data still says authenticated with the user of construction
C38_Witness ==
    /\ phase = "ready"
    /\ ~isAuthenticated
    /\ dataIsAuthenticated
    /\ dataUser = UserAccount
    /\ account = NullAccount
    /\ \E c \in Frames :
          /\ c.op = "query" /\ "logout" \in c.during
          /\ c.outcome = "resolved"
    /\ dataQuery # <<>>

\* a request of the batch has failed, in the frames cs
BatchFailed(cs) ==
    \E i \in 1..Len(cs) : cs[i].by = "batch" /\ cs[i].outcome = "rejected"

\* C39: once a request of the batch has failed, the batch never resolves,
\* the result cache is as it was when the batch started, and no step writes
\* to the durable store or to the result cache, also when other requests
\* of the batch have succeeded.
C39_FailedBatchPersistsNothing ==
    /\ [](BatchFailed(calls) =>
             /\ batch.state \in {"pending", "rejected"}
             /\ dataQuery = <<>>
             /\ EntryAt(batch.key) = batch.results)
    /\ [][BatchFailed(calls') =>
             /\ store' = store
             /\ dataQuery' = dataQuery]_vars

\* C39 witness: of the two requests of the batch one has succeeded and one
\* has failed; the batch is rejected, the cache is empty and the store holds
\* what the earlier session left
C39_Witness ==
    /\ batch.state = "rejected"
    /\ Cardinality(BatchFrames) = 2
    /\ \E i \in BatchFrames :
          calls[i].outcome = "resolved" /\ calls[i].response \in TransportResponses
    /\ \E i \in BatchFrames : calls[i].outcome = "rejected"
    /\ dataQuery = <<>>
    /\ accessToken = "t2"
    /\ store = EarlierStore

\* the ids of the configured endpoints
EndpointIds == {endpoints[1][k].id : k \in 1..Len(endpoints[1])}

\* the token held is the one initialQuery() read the durable cache with
TokenFixed == KeyOfToken(accessToken) = batch.key

\* C40: with the token unchanged, a successful run of the batch leaves under
\* the token's key an entry equal to the result cache that holds every
\* configured id; a run that finds such an entry makes no transport request,
\* and when it resolves the durable cache is what it was and the result
\* cache equals the entry.
C40_BatchIdempotent ==
    /\ [][(BatchResolves /\ TokenFixed) =>
             /\ EndpointIds \subseteq DOMAIN dataQuery'
             /\ store'[batch.key] = dataQuery']_vars
    /\ [][(BatchStarts /\ EndpointIds \subseteq
                             DOMAIN EntryAt(KeyOfToken(accessToken))) =>
             /\ BatchIds(calls') = {}
             /\ batch'.results = EntryAt(KeyOfToken(accessToken))]_vars
    /\ [][(BatchResolves /\ TokenFixed /\ batch.key \in DOMAIN store
                         /\ EndpointIds \subseteq DOMAIN store[batch.key]) =>
             /\ BatchFrames = {}
             /\ store' = store
             /\ dataQuery' = store[batch.key]]_vars

\* C40 witness: the second run for token t2 over the two endpoints has
\* resolved without a request; the entry under t2's key, which only an
\* earlier run of this behaviour can have written, holds both results and
\* the result cache equals it
C40_Witness ==
    /\ batch.state = "resolved"
    /\ batch.key = "msal.query-t2"
    /\ accessToken = "t2"
    /\ endpoints = <<TwoEndpoints>>
    /\ calls # <<>>
    /\ BatchFrames = {}
    /\ "msal.query-t2" \in DOMAIN store
    /\ DOMAIN store["msal.query-t2"] = {"profile", "photo"}
    /\ dataQuery = store["msal.query-t2"]

====
